---- MODULE Spec2Model ----
(***************************************************************************)
(* State-machine model of the lecture video player's synchronization core: *)
(* the media controls store (stores/mediaControls.ts) and the media        *)
(* element it binds, the page/time synchronizer of the thumbnail bar, the  *)
(* content store and the screen wake lock composable driven from App.vue.  *)
(*                                                                         *)
(* Units.  Times are counted in ticks of 1/TimeScale millisecond, so that  *)
(* the element position (a float, in seconds) can lie between two whole    *)
(* milliseconds and Math.floor(el.currentTime * 1000) is a real rounding.  *)
(* Element volumes are counted in 1/VolScale percent for the same reason   *)
(* (Math.round(el.volume * 100)).  Speeds are counted in hundredths.       *)
(*                                                                         *)
(* Every event handler of the program runs to completion (single-threaded  *)
(* event loop), so a handler is one action.  Vue watchers are flushed in   *)
(* the microtask that follows the handler that changed the watched value,  *)
(* before any other handler runs, and are therefore part of the action     *)
(* that changed the value.  The continuation of an await on a platform     *)
(* promise (HTMLMediaElement.play, WakeLock.request, WakeLockSentinel      *)
(* .release) is a later action of its own.                                 *)
(***************************************************************************)
EXTENDS Integers, Sequences, FiniteSets, TLC

----------------------------------------------------------------------------
(* Bounds of the model *)

\* greatest element position and seek target, in ticks
MaxTime == 4
\* greatest number of play() promises pending at once
MaxPlayPending == 2
\* greatest number of pages of a page list
MaxPages == 2
\* greatest number of pages of a page list the page lookup is checked on
MaxFindPages == 4
\* greatest number of wakeLock.request() promises pending at once
MaxRequests == 2
\* greatest number of wake lock sentinels the platform hands out
MaxSentinels == 2
\* greatest number of bindings of a keyboard dispatcher
MaxBindings == 3
\* number of components using the fullscreen controller
MaxConsumers == 2
\* greatest number of timeouts the fullscreen controller starts
MaxTimers == 4
\* greatest number of fullscreenchange events queued at once
MaxFsEvents == 2
\* greatest number of entries of a dataset given to contentStore.load
MaxEntries == 2

----------------------------------------------------------------------------
(* Program constants and units *)

\* ticks per millisecond (resolution of the element position)
TimeScale == 2
\* element volume steps per percent (resolution of el.volume)
VolScale == 2
\* a non-finite number (NaN, Infinity)
NaN == 9999

Elems == {"A", "B"}
NoEl == "none"
Events == {"timeupdate", "durationchange", "play", "pause", "ended", "error",
           "volumechange", "ratechange"}
PlaybackStates == {"paused", "playing", "ended", "error"}

MinSpeed == 25
MaxSpeed == 200
\* the volume toggleMute falls back to
DefaultUnmuteVolume == 50

\* wakeLock.value = null
NoSentinel == 0

Max(a, b) == IF a >= b THEN a ELSE b
Min(a, b) == IF a <= b THEN a ELSE b
IsFinite(x) == x # NaN

\* Math.floor(seconds * 1000), in ticks
FloorMs(t) == (t \div TimeScale) * TimeScale
\* Math.round(el.volume * 100), in percent (round half up)
RoundPct(v) == (v + 1) \div VolScale

----------------------------------------------------------------------------
VARIABLES
  \* state of the media controls store (stores/mediaControls.ts)
  volume, playbackSpeed, muted, prevVolume, pageCount, currentPage,
  currentTime, totalTime, playbackState, seeking, mediaEl,
  \* the media elements: el[e] is the state of element e
  el,
  \* number of play() calls whose promise is not settled yet
  playPending,
  \* TRUE once an exception escaped a store operation to its caller
  uncaught,
  \* content store: the page list (the timestamp of each page, in ticks)
  pageModel,
  \* thumbnail bar: its page items (the timestamp of each item)
  pageItems,
  \* content store: the decoded text of each page (a sequence of characters)
  pageText,
  \* the pages' thumbnails (image of each entry of content.pageModel)
  pageImage,
  \* content store: the search state (searchMatches holds 0-based page indices)
  lastQuery, matchesTotal, matchesCurrent, searchMatches, currentMatchIndex,
  \* TRUE when the currentTime watcher, the last time it ran, assigned currentPage
  pageWritten,
  \* wake lock composable: isSupported, isActive, wakeLock (the sentinel, 0 = null)
  isSupported, isActive, wakeLock,
  \* platform: the sentinels that hold the screen awake, the number of
  \* wakeLock.request() promises pending, the sentinels with release() pending,
  \* and the number of sentinels handed out so far
  held, requestsPending, releasing, sentinels,
  \* document.hidden
  hidden,
  \* history: the store's volume and muted before each toggleMute() of the
  \* current pair of calls (the third call starts a new pair), and whether a
  \* volume-change notification reached the store after the call
  toggles,
  \* platform: the pause task an element has queued (its element, whether
  \* 'pause' is still to fire, the play promises still to reject)
  aborting,
  \* navigator.platform
  platform,
  \* the keyboard dispatcher (composables/useKeyboard): its bindings and
  \* options; the key-down event the platform dispatches to it
  keyboard, keyEvent,
  \* fullscreen controller (composables/useFullscreenControls): the mounted
  \* consumers, the module's consumer count, whether onFsEvent is registered
  \* on the document, the shared refs, the tracked timeout id, the pending
  \* timeouts and the next id, whether the activity listeners are registered
  fsMounted, consumers, fsListener, fullscreen, controlsVisible,
  hideControlsTimer, timers, nextTimer, listenersAttached,
  \* the document: whether it has a fullscreen element, the queued
  \* fullscreenchange events, the root's 'app-fullscreen' class, and whether
  \* the Fullscreen API exists
  fullscreenElement, fsEvents, appFullscreen, apiSupported,
  \* the operation that ran last: [name |-> ..., arg |-> ..., ret |-> ...]
  op

storeVars == <<volume, playbackSpeed, muted, prevVolume, pageCount, currentPage,
               currentTime, totalTime, playbackState, seeking, mediaEl>>
volumeVars == <<volume, muted, prevVolume>>
searchVars == <<lastQuery, matchesTotal, matchesCurrent, searchMatches,
                currentMatchIndex>>
contentVars == <<pageModel, pageItems, pageText, pageImage, searchVars>>
wakeVars == <<isSupported, isActive, wakeLock, held, requestsPending, releasing,
              sentinels>>
keyVars == <<platform, keyboard, keyEvent>>
fsVars == <<fsMounted, consumers, fsListener, fullscreen, controlsVisible,
            hideControlsTimer, timers, nextTimer, listenersAttached,
            fullscreenElement, fsEvents, appFullscreen, apiSupported>>
uiVars == <<keyVars, fsVars, hidden, toggles, aborting>>
vars == <<volume, playbackSpeed, muted, prevVolume, pageCount, currentPage,
          currentTime, totalTime, playbackState, seeking, mediaEl,
          el, playPending, uncaught, pageModel, pageItems, pageText,
          pageImage,
          lastQuery, matchesTotal, matchesCurrent, searchMatches,
          currentMatchIndex, pageWritten,
          isSupported, isActive, wakeLock, held, requestsPending, releasing,
          sentinels, platform, keyboard, keyEvent, fsMounted, consumers,
          fsListener, fullscreen, controlsVisible, hideControlsTimer, timers,
          nextTimer, listenersAttached, fullscreenElement, fsEvents,
          appFullscreen, apiSupported, hidden, toggles, aborting, op>>

effectiveVolume == IF muted THEN 0 ELSE volume

NoListeners == [ev \in Events |-> 0]

\* a media element as the platform creates it
FreshElement ==
  [currentTime |-> 0, duration |-> NaN, volume |-> 100 * VolScale,
   muted |-> FALSE, playbackRate |-> 100, paused |-> TRUE, ended |-> FALSE,
   listeners |-> NoListeners, mc_listeners |-> FALSE]

Done(name, arg, ret) == op' = [name |-> name, arg |-> arg, ret |-> ret]

InitStore ==
  /\ volume = 100
  /\ playbackSpeed = 100
  /\ muted = FALSE
  /\ prevVolume = 100
  /\ pageCount = 0
  /\ currentPage = 1
  /\ currentTime = 0
  /\ totalTime = 0
  /\ playbackState = "paused"
  /\ seeking = FALSE
  /\ mediaEl = NoEl

InitSearch ==
  /\ lastQuery = <<>>
  /\ matchesTotal = 0
  /\ matchesCurrent = 0
  /\ searchMatches = <<>>
  /\ currentMatchIndex = -1

InitWakeLock ==
  /\ isSupported \in BOOLEAN
  /\ isActive = FALSE
  /\ wakeLock = NoSentinel
  /\ held = {}
  /\ requestsPending = 0
  /\ releasing = {}
  /\ sentinels = 0
  /\ hidden = FALSE

\* An event target, by what the dispatcher reads of it: whether it is a DOM
\* Node and an HTMLElement, whether the scope root contains it, and the
\* element's isContentEditable, tagName and type ("" where it has none).
Target(isNode, isHTMLElement, inside, isContentEditable, tagName, type) ==
  [isNode |-> isNode, isHTMLElement |-> isHTMLElement, inside |-> inside,
   isContentEditable |-> isContentEditable, tagName |-> tagName, type |-> type]

\* the window object: an EventTarget that is no Node
Window == Target(FALSE, FALSE, FALSE, FALSE, "", "")

\* no key-down event is being dispatched
NoEvent == [key |-> "", code |-> "", ctrlKey |-> FALSE, shiftKey |-> FALSE,
            altKey |-> FALSE, metaKey |-> FALSE, repeat |-> FALSE,
            target |-> Window]

\* before any component has mounted a keyboard dispatcher
InitKeyboard ==
  /\ platform = "Win32"
  /\ keyboard = [bindings |-> <<>>, enabled |-> TRUE, ignoreEditable |-> TRUE,
                 onlyInside |-> FALSE]
  /\ keyEvent = NoEvent

\* hideControlsTimer when it is null
NoTimer == 0

\* delay of the timeout that hides the controls, in milliseconds
HideDelayMs == 2500

InitFullscreen ==
  /\ fsMounted = {}
  /\ consumers = 0
  /\ fsListener = FALSE
  /\ fullscreen = FALSE
  /\ controlsVisible = TRUE
  /\ hideControlsTimer = NoTimer
  /\ timers = {}
  /\ nextTimer = 1
  /\ listenersAttached = FALSE
  /\ fullscreenElement = FALSE
  /\ fsEvents = 0
  /\ appFullscreen = FALSE

InitPlayer ==
  /\ InitStore
  /\ el = [e \in Elems |-> FreshElement]
  /\ playPending = 0
  /\ uncaught = FALSE
  /\ pageModel = <<>>
  /\ pageItems = <<>>
  /\ pageText = <<>>
  /\ pageImage = <<>>
  /\ InitSearch
  /\ pageWritten = FALSE
  /\ toggles = <<>>
  /\ aborting = [el |-> NoEl, event |-> FALSE, rejects |-> 0]
  /\ InitWakeLock
  /\ op = [name |-> "init", arg |-> NoEl, ret |-> TRUE]

Init == InitPlayer /\ InitKeyboard /\ InitFullscreen /\ apiSupported = TRUE

----------------------------------------------------------------------------
(* Page/time synchronizer (components/ThumbnailBar.vue) *)

\* the search with a strict comparison
RECURSIVE BinarySearch_Strict(_, _, _, _, _)
BinarySearch_Strict(pages, timestamp, left, right, result) ==
  IF left > right
  THEN result
  ELSE LET mid == (left + right) \div 2
       IN IF pages[mid + 1] < timestamp
          THEN BinarySearch_Strict(pages, timestamp, mid + 1, right, mid)
          ELSE BinarySearch_Strict(pages, timestamp, left, mid - 1, result)

\* the binary search loop of findPageForTimestamp over pages[left+1 .. right+1]
RECURSIVE BinarySearch(_, _, _, _, _)
BinarySearch(pages, timestamp, left, right, result) ==
  IF left > right
  THEN result
  ELSE LET mid == (left + right) \div 2
       IN IF pages[mid + 1] <= timestamp
          THEN BinarySearch(pages, timestamp, mid + 1, right, mid)
          ELSE BinarySearch(pages, timestamp, left, mid - 1, result)

\* the lookup over the strict search
findPageForTimestamp_Strict(pages, timestamp) ==
  IF Len(pages) = 0
  THEN 1
  ELSE BinarySearch_Strict(pages, timestamp, 0, Len(pages) - 1, 0) + 1

findPageForTimestamp(pages, timestamp) ==
  IF Len(pages) = 0
  THEN 1
  ELSE BinarySearch(pages, timestamp, 0, Len(pages) - 1, 0) + 1

\* the watcher computing the page from the time before the change
WatchCurrentTime_OldTime(page) ==
  IF currentTime' # currentTime /\ Len(pageModel) > 0
  THEN LET newPage == findPageForTimestamp(pageModel, currentTime)
       IN /\ currentPage' = newPage
          /\ pageWritten' = (newPage # page)
  ELSE /\ currentPage' = page
       /\ UNCHANGED pageWritten

\* watch(() => media.currentTime): runs when the handler changed currentTime;
\* page is media.currentPage as the handler left it
WatchCurrentTime(page) ==
  IF currentTime' # currentTime /\ Len(pageModel) > 0
  THEN LET newPage == findPageForTimestamp(pageModel, currentTime')
       IN /\ currentPage' = newPage
          /\ pageWritten' = (newPage # page)
  ELSE /\ currentPage' = page
       /\ UNCHANGED pageWritten

----------------------------------------------------------------------------
(* Screen wake lock (composables/useScreenWakeLock) driven by App.vue *)

RequestWakeLock_NoGuard == requestsPending + 1

\* requestWakeLock up to its await: the number of platform requests pending
RequestWakeLock ==
  IF ~isSupported \/ isActive THEN requestsPending ELSE requestsPending + 1

\* releaseWakeLock that calls release() whatever the flag and the stored lock
ReleaseWakeLock_NoGuard == releasing \cup {wakeLock}

\* releaseWakeLock up to its await: the sentinels with a release pending
ReleaseWakeLock ==
  IF wakeLock # NoSentinel /\ isActive THEN releasing \cup {wakeLock} ELSE releasing

\* watch(() => mediaStore.playbackState): runs when the handler changed it
WatchPlaybackState ==
  IF playbackState' # playbackState /\ isSupported
  THEN IF playbackState' = "playing"
       THEN /\ requestsPending' = RequestWakeLock
            /\ requestsPending' <= MaxRequests
            /\ UNCHANGED <<isSupported, isActive, wakeLock, held, releasing, sentinels>>
       ELSE /\ releasing' = ReleaseWakeLock
            /\ UNCHANGED <<isSupported, isActive, wakeLock, held, requestsPending,
                           sentinels>>
  ELSE UNCHANGED wakeVars

\* navigator.wakeLock.request() resolves: requestWakeLock continues after its await
RequestGranted ==
  /\ requestsPending > 0
  /\ sentinels < MaxSentinels
  /\ requestsPending' = requestsPending - 1
  /\ sentinels' = sentinels + 1
  /\ held' = held \cup {sentinels + 1}
  /\ wakeLock' = sentinels + 1
  /\ isActive' = TRUE
  /\ Done("requestGranted", sentinels + 1, TRUE)
  /\ UNCHANGED <<storeVars, el, playPending, uncaught, contentVars, pageWritten,
                 uiVars, isSupported, releasing>>

\* navigator.wakeLock.request() rejects: the catch block of requestWakeLock
RequestDenied ==
  /\ requestsPending > 0
  /\ requestsPending' = requestsPending - 1
  /\ Done("requestDenied", NoSentinel, FALSE)
  /\ UNCHANGED <<storeVars, el, playPending, uncaught, contentVars, pageWritten,
                 uiVars, isSupported, isActive, wakeLock, held, releasing, sentinels>>

\* sentinel.release() resolves: the sentinel's release listener runs, then
\* releaseWakeLock continues after its await
ReleaseSettled(s) ==
  /\ s \in releasing
  /\ releasing' = releasing \ {s}
  /\ held' = held \ {s}
  /\ isActive' = FALSE
  /\ wakeLock' = NoSentinel
  /\ Done("releaseSettled", s, TRUE)
  /\ UNCHANGED <<storeVars, el, playPending, uncaught, contentVars, pageWritten,
                 uiVars, isSupported, requestsPending, sentinels>>

\* a release listener that forgets the sentinel and leaves the flag set
PlatformRelease_KeepsFlag(s) ==
  /\ s \in held
  /\ held' = held \ {s}
  /\ wakeLock' = NoSentinel
  /\ Done("platformRelease", s, TRUE)
  /\ UNCHANGED <<storeVars, el, playPending, uncaught, contentVars, pageWritten,
                 uiVars, isSupported, isActive, requestsPending, releasing,
                 sentinels>>

\* the platform releases a sentinel on its own: the sentinel's release listener
PlatformRelease(s) ==
  /\ s \in held
  /\ held' = held \ {s}
  /\ isActive' = FALSE
  /\ wakeLock' = NoSentinel
  /\ Done("platformRelease", s, TRUE)
  /\ UNCHANGED <<storeVars, el, playPending, uncaught, contentVars, pageWritten,
                 uiVars, isSupported, requestsPending, releasing, sentinels>>

\* what neither the wake lock composable nor the document's visibility touch
wakeFrame == <<storeVars, el, playPending, uncaught, contentVars, pageWritten,
               keyVars, fsVars, toggles, aborting>>

\* requestWakeLock() called by a component: it returns false at once, or asks
\* the platform and continues in RequestGranted or RequestDenied
requestWakeLock ==
  /\ requestsPending' = RequestWakeLock
  /\ requestsPending' <= MaxRequests
  /\ Done("requestWakeLock", NoEl,
          IF ~isSupported \/ isActive THEN {FALSE} ELSE {})
  /\ UNCHANGED <<wakeFrame, hidden, isSupported, isActive, wakeLock, held,
                 releasing, sentinels>>

\* releaseWakeLock() called by a component: it returns at once, or calls
\* release() on the stored sentinel and continues in ReleaseSettled
releaseWakeLock ==
  /\ releasing' = ReleaseWakeLock
  /\ Done("releaseWakeLock", NoEl, wakeLock # NoSentinel /\ isActive)
  /\ UNCHANGED <<wakeFrame, hidden, isSupported, isActive, wakeLock, held,
                 requestsPending, sentinels>>

\* handleVisibilityChange(shouldBeActive) up to its await, document.hidden
\* being isHidden
HandleVisibilityChange(isHidden, shouldBeActive) ==
  /\ requestsPending' = IF isSupported /\ ~isHidden /\ shouldBeActive /\ ~isActive
                          THEN RequestWakeLock ELSE requestsPending
  /\ releasing' = IF isSupported /\ isHidden THEN ReleaseWakeLock ELSE releasing

\* handleVisibilityChange(shouldBeActive) called by a component
handleVisibilityChange(shouldBeActive) ==
  /\ HandleVisibilityChange(hidden, shouldBeActive)
  /\ requestsPending' <= MaxRequests
  /\ Done("handleVisibilityChange", shouldBeActive, hidden)
  /\ UNCHANGED <<wakeFrame, hidden, isSupported, isActive, wakeLock, held,
                 sentinels>>

\* the page is hidden or shown again: the document fires visibilitychange and
\* App.vue's handleVisibilityChangeEvent runs
visibilitychange ==
  /\ hidden' = ~hidden
  /\ HandleVisibilityChange(hidden', playbackState = "playing")
  /\ requestsPending' <= MaxRequests
  /\ Done("visibilitychange", playbackState = "playing", hidden')
  /\ UNCHANGED <<wakeFrame, isSupported, isActive, wakeLock, held, sentinels>>

----------------------------------------------------------------------------
(* Binding the store to a media element *)

\* the elements after detachMedia's removeEventListener calls on element m
RemoveListeners(f, m) ==
  IF m # NoEl /\ f[m].mc_listeners
  THEN [f EXCEPT ![m].listeners = [ev \in Events |-> Max(0, @[ev] - 1)],
                 ![m].mc_listeners = FALSE]
  ELSE f

detachMedia ==
  /\ el' = RemoveListeners(el, mediaEl)
  /\ mediaEl' = NoEl
  /\ Done("detachMedia", mediaEl, TRUE)
  /\ UNCHANGED <<volume, playbackSpeed, muted, prevVolume, pageCount,
                 currentPage, currentTime, totalTime, playbackState, seeking,
                 playPending, uncaught, contentVars, pageWritten, wakeVars, uiVars>>

\* attachMedia without the detachMedia call it starts with
attachMedia_NoDetach(e) ==
  LET old == el[e]
  IN /\ el' = [el EXCEPT ![e] =
                 [old EXCEPT
                    !.muted = muted,
                    !.volume = effectiveVolume * VolScale,
                    !.playbackRate = playbackSpeed,
                    !.currentTime = IF IsFinite(currentTime) /\ currentTime > 0
                                    THEN currentTime ELSE old.currentTime,
                    !.listeners = [ev \in Events |-> old.listeners[ev] + 1],
                    !.mc_listeners = TRUE]]
     /\ mediaEl' = e
     /\ Done("attachMedia", e, mediaEl)
     /\ UNCHANGED <<volume, playbackSpeed, muted, prevVolume, pageCount,
                    currentPage, currentTime, totalTime, playbackState, seeking,
                    playPending, uncaught, contentVars, pageWritten, wakeVars, uiVars>>

attachMedia(e) ==
  LET detached == RemoveListeners(el, mediaEl)
      old == detached[e]
  IN /\ el' = [detached EXCEPT ![e] =
                 [old EXCEPT
                    !.muted = muted,
                    !.volume = effectiveVolume * VolScale,
                    !.playbackRate = playbackSpeed,
                    !.currentTime = IF IsFinite(currentTime) /\ currentTime > 0
                                    THEN currentTime ELSE old.currentTime,
                    !.listeners = [ev \in Events |-> old.listeners[ev] + 1],
                    !.mc_listeners = TRUE]]
     /\ mediaEl' = e
     /\ Done("attachMedia", e, mediaEl)
     /\ UNCHANGED <<volume, playbackSpeed, muted, prevVolume, pageCount,
                    currentPage, currentTime, totalTime, playbackState, seeking,
                    playPending, uncaught, contentVars, pageWritten, wakeVars, uiVars>>

----------------------------------------------------------------------------
(* Store operations on the playback position *)

SeekInputs == (-1 .. MaxTime) \cup {NaN}
ElementTimes == 0 .. MaxTime

seekTo_ClampsStore(milliseconds) ==
  IF ~IsFinite(milliseconds)
  THEN /\ Done("seekTo", milliseconds, FALSE)
       /\ UNCHANGED <<storeVars, el, playPending, uncaught, contentVars,
                      pageWritten, wakeVars, uiVars>>
  ELSE /\ currentTime' = Max(0, milliseconds)
       /\ el' = IF mediaEl # NoEl
                THEN [el EXCEPT ![mediaEl].currentTime = Max(0, milliseconds)]
                ELSE el
       /\ WatchCurrentTime(currentPage)
       /\ Done("seekTo", milliseconds, TRUE)
       /\ UNCHANGED <<volume, playbackSpeed, muted, prevVolume, pageCount,
                      totalTime, playbackState, seeking, mediaEl, playPending,
                      uncaught, contentVars, wakeVars, uiVars>>

seekTo(milliseconds) ==
  IF ~IsFinite(milliseconds)
  THEN /\ Done("seekTo", milliseconds, FALSE)
       /\ UNCHANGED <<storeVars, el, playPending, uncaught, contentVars,
                      pageWritten, wakeVars, uiVars>>
  ELSE /\ currentTime' = milliseconds
       /\ el' = IF mediaEl # NoEl
                THEN [el EXCEPT ![mediaEl].currentTime = Max(0, milliseconds)]
                ELSE el
       /\ WatchCurrentTime(currentPage)
       /\ Done("seekTo", milliseconds, TRUE)
       /\ UNCHANGED <<volume, playbackSpeed, muted, prevVolume, pageCount,
                      totalTime, playbackState, seeking, mediaEl, playPending,
                      uncaught, contentVars, wakeVars, uiVars>>

startSeeking ==
  /\ seeking' = TRUE
  /\ Done("startSeeking", NoEl, TRUE)
  /\ UNCHANGED <<volume, playbackSpeed, muted, prevVolume, pageCount, currentPage,
                 currentTime, totalTime, playbackState, mediaEl, el, playPending,
                 uncaught, contentVars, pageWritten, wakeVars, uiVars>>

stopSeeking ==
  /\ seeking' = FALSE
  /\ currentTime' = IF mediaEl # NoEl
                    THEN Max(0, FloorMs(el[mediaEl].currentTime))
                    ELSE currentTime
  /\ WatchCurrentTime(currentPage)
  /\ Done("stopSeeking", mediaEl, TRUE)
  /\ UNCHANGED <<volume, playbackSpeed, muted, prevVolume, pageCount, totalTime,
                 playbackState, mediaEl, el, playPending, uncaught, contentVars,
                 wakeVars, uiVars>>

----------------------------------------------------------------------------
(* Element -> store synchronization: the listeners attachMedia registers.   *)
(* The platform fires the notification at element e; it reaches the store   *)
(* only through a listener registered on e, and the listener reads the      *)
(* element's state at the time it runs.                                     *)

Listens(e, ev) == el[e].listeners[ev] > 0

\* onTimeUpdate without its test of the seeking flag
onTimeUpdate_IgnoresSeeking(e) ==
  /\ currentTime' = IF Listens(e, "timeupdate")
                    THEN Max(0, FloorMs(el[e].currentTime))
                    ELSE currentTime
  /\ WatchCurrentTime(currentPage)
  /\ Done("onTimeUpdate", e, Listens(e, "timeupdate"))
  /\ UNCHANGED <<volume, playbackSpeed, muted, prevVolume, pageCount, totalTime,
                 playbackState, seeking, mediaEl, el, playPending, uncaught,
                 contentVars, wakeVars, uiVars>>

onTimeUpdate(e) ==
  /\ currentTime' = IF Listens(e, "timeupdate") /\ ~seeking
                    THEN Max(0, FloorMs(el[e].currentTime))
                    ELSE currentTime
  /\ WatchCurrentTime(currentPage)
  /\ Done("onTimeUpdate", e, Listens(e, "timeupdate"))
  /\ UNCHANGED <<volume, playbackSpeed, muted, prevVolume, pageCount, totalTime,
                 playbackState, seeking, mediaEl, el, playPending, uncaught,
                 contentVars, wakeVars, uiVars>>

onDurationChange(e) ==
  /\ totalTime' = IF Listens(e, "durationchange")
                  THEN IF IsFinite(el[e].duration)
                       THEN Max(0, FloorMs(el[e].duration))
                       ELSE 0
                  ELSE totalTime
  /\ Done("onDurationChange", e, Listens(e, "durationchange"))
  /\ UNCHANGED <<volume, playbackSpeed, muted, prevVolume, pageCount, currentPage,
                 currentTime, playbackState, seeking, mediaEl, el, playPending,
                 uncaught, contentVars, pageWritten, wakeVars, uiVars>>

\* onPlay, onPause, onEnded, onError: the phase each listener stores
PhaseOf(ev) ==
  CASE ev = "play" -> "playing"
    [] ev = "pause" -> "paused"
    [] ev = "ended" -> "ended"
    [] ev = "error" -> "error"

PhaseEvents == {"play", "pause", "ended", "error"}

HandlerOf(ev) ==
  CASE ev = "play" -> "onPlay"
    [] ev = "pause" -> "onPause"
    [] ev = "ended" -> "onEnded"
    [] ev = "error" -> "onError"

onPhase(e, ev) ==
  /\ playbackState' = IF Listens(e, ev) THEN PhaseOf(ev) ELSE playbackState
  /\ WatchPlaybackState
  /\ Done(HandlerOf(ev), e, Listens(e, ev))
  /\ UNCHANGED <<volume, playbackSpeed, muted, prevVolume, pageCount, currentPage,
                 currentTime, totalTime, seeking, mediaEl, el, playPending,
                 uncaught, contentVars, pageWritten, uiVars>>

onVolumeChange(e) ==
  LET elementMuted == el[e].muted
      elementVolume == RoundPct(el[e].volume)
  IN /\ IF Listens(e, "volumechange")
           /\ (elementMuted # muted \/ elementVolume # volume)
        THEN /\ muted' = elementMuted
             /\ volume' = elementVolume
             /\ prevVolume' = IF ~elementMuted /\ elementVolume > 0
                              THEN elementVolume ELSE prevVolume
        ELSE UNCHANGED volumeVars
     /\ toggles' = IF Listens(e, "volumechange") /\ toggles # <<>>
                   THEN [toggles EXCEPT ![Len(toggles)].notified = TRUE]
                   ELSE toggles
     /\ Done("onVolumeChange", e, Listens(e, "volumechange"))
     /\ UNCHANGED <<playbackSpeed, pageCount, currentPage, currentTime, totalTime,
                    playbackState, seeking, mediaEl, el, playPending, uncaught,
                    contentVars, pageWritten, wakeVars, keyVars, fsVars, hidden,
                 aborting>>

onRateChange(e) ==
  /\ playbackSpeed' = IF Listens(e, "ratechange")
                      THEN el[e].playbackRate ELSE playbackSpeed
  /\ Done("onRateChange", e, Listens(e, "ratechange"))
  /\ UNCHANGED <<volume, muted, prevVolume, pageCount, currentPage, currentTime,
                 totalTime, playbackState, seeking, mediaEl, el, playPending,
                 uncaught, contentVars, pageWritten, wakeVars, uiVars>>

----------------------------------------------------------------------------
(* Volume, mute and speed *)

\* arguments of setVolume, in 1/VolScale percent
VolumeInputs == {-10, 0, 101, 150, 250}
\* arguments of setPlaybackSpeed, in hundredths
SpeedInputs == {10, 25, 150, 200, 300}

\* the element after the store pushed volume v (percent) and muted flag m
PushVolume(v, m) ==
  IF mediaEl # NoEl
  THEN [el EXCEPT ![mediaEl].volume = v * VolScale, ![mediaEl].muted = m]
  ELSE el

\* Math.max(0, Math.min(100, Math.round(value))): Math.round, Math.min and
\* Math.max all return NaN for a NaN argument
ClampVolume(value) ==
  IF IsFinite(value) THEN Max(0, Min(100, RoundPct(value))) ELSE NaN

\* assigning a non-finite number to el.volume throws a TypeError, which
\* setVolume does not catch: the store fields are written, the element is not
setVolume(value) ==
  LET v == ClampVolume(value)
  IN /\ muted' = FALSE
     /\ prevVolume' = IF IsFinite(v) /\ v > 0 THEN v ELSE prevVolume
     /\ volume' = v
     /\ el' = IF IsFinite(v) THEN PushVolume(v, FALSE) ELSE el
     /\ uncaught' = (uncaught \/ (mediaEl # NoEl /\ ~IsFinite(v)))
     /\ Done("setVolume", value, TRUE)
     /\ UNCHANGED <<playbackSpeed, pageCount, currentPage, currentTime, totalTime,
                    playbackState, seeking, mediaEl, playPending,
                    contentVars, pageWritten, wakeVars, uiVars>>

\* toggleMute that unmutes to the default volume instead of the remembered one
toggleMute_UnmutesToDefault ==
  /\ IF muted
     THEN /\ volume' = DefaultUnmuteVolume
          /\ muted' = FALSE
          /\ UNCHANGED prevVolume
          /\ el' = PushVolume(DefaultUnmuteVolume, FALSE)
     ELSE /\ prevVolume' = IF volume > 0 THEN volume ELSE prevVolume
          /\ muted' = TRUE
          /\ UNCHANGED volume
          /\ el' = PushVolume(volume, TRUE)
  /\ toggles' = (IF Len(toggles) = 1 THEN toggles ELSE <<>>)
                   \o <<[volume |-> volume, muted |-> muted, notified |-> FALSE]>>
  /\ Done("toggleMute", NoEl, TRUE)
  /\ UNCHANGED <<playbackSpeed, pageCount, currentPage, currentTime, totalTime,
                 playbackState, seeking, mediaEl, playPending, uncaught,
                 contentVars, pageWritten, wakeVars, keyVars, fsVars, hidden,
                 aborting>>

toggleMute ==
  /\ IF muted
     THEN LET v == IF prevVolume > 0 THEN prevVolume
                   ELSE IF volume > 0 THEN volume ELSE DefaultUnmuteVolume
          IN /\ volume' = v
             /\ muted' = FALSE
             /\ UNCHANGED prevVolume
             /\ el' = PushVolume(v, FALSE)
     ELSE /\ prevVolume' = IF volume > 0 THEN volume ELSE prevVolume
          /\ muted' = TRUE
          /\ UNCHANGED volume
          /\ el' = PushVolume(volume, TRUE)
  /\ toggles' = (IF Len(toggles) = 1 THEN toggles ELSE <<>>)
                   \o <<[volume |-> volume, muted |-> muted, notified |-> FALSE]>>
  /\ Done("toggleMute", NoEl, TRUE)
  /\ UNCHANGED <<playbackSpeed, pageCount, currentPage, currentTime, totalTime,
                 playbackState, seeking, mediaEl, playPending, uncaught,
                 contentVars, pageWritten, wakeVars, keyVars, fsVars, hidden,
                 aborting>>

setPlaybackSpeed(value) ==
  LET speed == Max(MinSpeed, Min(MaxSpeed, value))
  IN /\ playbackSpeed' = speed
     /\ el' = IF mediaEl # NoEl
              THEN [el EXCEPT ![mediaEl].playbackRate = speed]
              ELSE el
     /\ Done("setPlaybackSpeed", value, TRUE)
     /\ UNCHANGED <<volume, muted, prevVolume, pageCount, currentPage, currentTime,
                    totalTime, playbackState, seeking, mediaEl, playPending,
                    uncaught, contentVars, pageWritten, wakeVars, uiVars>>

----------------------------------------------------------------------------
(* Play and pause *)

\* play() up to its await: el.play() is called and its promise is pending; the
\* element starts (paused = false) when the platform allows it
CallPlay(name, allowed) ==
  /\ playPending < MaxPlayPending
  /\ playPending' = playPending + 1
  /\ el' = IF allowed
           THEN [el EXCEPT ![mediaEl].paused = FALSE, ![mediaEl].ended = FALSE]
           ELSE el
  /\ Done(name, mediaEl, "play")
  /\ UNCHANGED <<storeVars, uncaught, contentVars, pageWritten, wakeVars, uiVars>>

\* pause() that also stores the phase itself instead of waiting for the
\* element's pause notification
CallPause_StoresPhase(name) ==
  /\ el' = [el EXCEPT ![mediaEl].paused = TRUE]
  /\ playbackState' = "paused"
  /\ Done(name, mediaEl, "pause")
  /\ UNCHANGED <<volume, playbackSpeed, muted, prevVolume, pageCount, currentPage,
                 currentTime, totalTime, seeking, mediaEl, playPending, uncaught,
                 contentVars, pageWritten, wakeVars, uiVars>>

\* pause(): el.pause() inside try/catch
CallPause(name) ==
  /\ el' = [el EXCEPT ![mediaEl].paused = TRUE]
  /\ Done(name, mediaEl, "pause")
  /\ UNCHANGED <<storeVars, playPending, uncaught, contentVars, pageWritten,
                 wakeVars, uiVars>>

\* an operation that returns at once because no element is attached
NoElement(name) ==
  /\ Done(name, NoEl, "none")
  /\ UNCHANGED <<storeVars, el, playPending, uncaught, contentVars, pageWritten,
                 wakeVars, uiVars>>

play(allowed) ==
  IF mediaEl = NoEl THEN NoElement("play") ELSE CallPlay("play", allowed)

pause ==
  IF mediaEl = NoEl THEN NoElement("pause") ELSE CallPause("pause")

\* togglePlayPause that decides by the stored phase instead of el.paused and
\* el.ended
togglePlayPause_ByPhase(allowed) ==
  IF mediaEl = NoEl
  THEN NoElement("togglePlayPause")
  ELSE IF playbackState \in {"paused", "ended"}
       THEN CallPlay("togglePlayPause", allowed)
       ELSE CallPause("togglePlayPause")

togglePlayPause(allowed) ==
  IF mediaEl = NoEl
  THEN NoElement("togglePlayPause")
  ELSE IF el[mediaEl].paused \/ el[mediaEl].ended
       THEN CallPlay("togglePlayPause", allowed)
       ELSE CallPause("togglePlayPause")

\* the promise of el.play() resolves: play() returns
playResolved ==
  /\ playPending > 0
  /\ playPending' = playPending - 1
  /\ Done("playResolved", NoEl, TRUE)
  /\ UNCHANGED <<storeVars, el, uncaught, contentVars, pageWritten, wakeVars, uiVars>>

\* play() without its try/catch: the rejection escapes to the caller
playRejected_NoCatch ==
  /\ playPending > 0
  /\ playPending' = playPending - 1
  /\ uncaught' = TRUE
  /\ Done("playRejected", NoEl, FALSE)
  /\ UNCHANGED <<storeVars, el, contentVars, pageWritten, wakeVars, uiVars>>

\* the promise of el.play() rejects: the catch block of play()
playRejected ==
  /\ playPending > 0
  /\ playPending' = playPending - 1
  /\ playbackState' = "error"
  /\ WatchPlaybackState
  /\ Done("playRejected", NoEl, FALSE)
  /\ UNCHANGED <<volume, playbackSpeed, muted, prevVolume, pageCount, currentPage,
                 currentTime, totalTime, seeking, mediaEl, el, uncaught,
                 contentVars, pageWritten, uiVars>>

----------------------------------------------------------------------------
(* The element's pause steps: pause() on an element that is not paused sets   *)
(* paused and queues a task that fires 'pause' and rejects the play promises  *)
(* still pending with an AbortError                                           *)

NoAbort == [el |-> NoEl, event |-> FALSE, rejects |-> 0]

\* pause() of the store on an attached element that is playing, with the
\* element's pause steps
pauseWhilePlaying ==
  /\ mediaEl # NoEl
  /\ ~el[mediaEl].paused
  /\ ~aborting.event
  /\ aborting.rejects = 0
  /\ el' = [el EXCEPT ![mediaEl].paused = TRUE]
  /\ aborting' = [el |-> mediaEl, event |-> TRUE, rejects |-> playPending]
  /\ Done("pause", mediaEl, "pause")
  /\ UNCHANGED <<storeVars, playPending, uncaught, contentVars, pageWritten,
                 wakeVars, keyVars, fsVars, hidden, toggles>>

\* the queued task fires 'pause': the store's onPause listener
pauseEvent ==
  /\ aborting.event
  /\ aborting' = [aborting EXCEPT !.event = FALSE]
  /\ playbackState' = IF Listens(aborting.el, "pause")
                      THEN PhaseOf("pause") ELSE playbackState
  /\ WatchPlaybackState
  /\ Done("onPause", aborting.el, Listens(aborting.el, "pause"))
  /\ UNCHANGED <<volume, playbackSpeed, muted, prevVolume, pageCount, currentPage,
                 currentTime, totalTime, seeking, mediaEl, el, playPending,
                 uncaught, contentVars, pageWritten, keyVars, fsVars, hidden,
                 toggles>>

\* the queued task rejects a pending play promise: the catch block of play()
playAborted ==
  /\ aborting.rejects > 0
  /\ aborting' = [aborting EXCEPT !.rejects = @ - 1]
  /\ playPending' = playPending - 1
  /\ playbackState' = "error"
  /\ WatchPlaybackState
  /\ Done("playRejected", aborting.el, FALSE)
  /\ UNCHANGED <<volume, playbackSpeed, muted, prevVolume, pageCount, currentPage,
                 currentTime, totalTime, seeking, mediaEl, el, uncaught,
                 contentVars, pageWritten, keyVars, fsVars, hidden, toggles>>

----------------------------------------------------------------------------
(* The platform changes a media element (playback progress, native controls, *)
(* other scripts); the notification is delivered by a later action.          *)

ExternalVolumes == {0, 101, 200}
ExternalRates == {50, 100, 300}
Durations == {MaxTime - 1, NaN}

ElementChange(name, e, state) ==
  /\ el' = [el EXCEPT ![e] = state]
  /\ Done(name, e, TRUE)
  /\ UNCHANGED <<storeVars, playPending, uncaught, contentVars, pageWritten,
                 wakeVars, uiVars>>

elementTime(e, t) ==
  ElementChange("elementTime", e, [el[e] EXCEPT !.currentTime = t])

elementVolume(e, v, m) ==
  ElementChange("elementVolume", e, [el[e] EXCEPT !.volume = v, !.muted = m])

elementRate(e, r) ==
  ElementChange("elementRate", e, [el[e] EXCEPT !.playbackRate = r])

elementDuration(e, d) ==
  ElementChange("elementDuration", e, [el[e] EXCEPT !.duration = d])

elementEnded(e) ==
  ElementChange("elementEnded", e, [el[e] EXCEPT !.ended = TRUE, !.paused = TRUE])

----------------------------------------------------------------------------
(* Content load and page navigation *)

\* page timestamps are whole milliseconds
PageTimes == {t \in 0 .. MaxTime : t % TimeScale = 0}
Sorted(pages) == \A i \in 1 .. Len(pages) - 1 : pages[i] <= pages[i + 1]
\* the page datasets the lecture recorder produces: ascending timestamps, up
\* to n pages
SortedLists(n) ==
  {pages \in UNION {[1 .. k -> PageTimes] : k \in 0 .. n} : Sorted(pages)}
PageLists == SortedLists(MaxPages)
PageInputs == 0 .. MaxPages + 1

\* a page dataset without text
NoTexts(pages) == [i \in 1 .. Len(pages) |-> <<>>]

\* a page dataset without thumbnails
NoImages(pages) == [i \in 1 .. Len(pages) |-> ""]

\* contentStore.load assigns the mapped page list (timestamps, decoded texts
\* and thumbnails); the thumbnail bar's watcher of content.pageModel then runs
\* ensureInitializedFromDoc
LoadModel(arg, pages, texts, images) ==
  /\ pageModel' = pages
  /\ pageText' = texts
  /\ pageImage' = images
  /\ IF Len(pages) > 0 /\ Len(pageItems) = 0
     THEN /\ pageItems' = pages
          /\ pageCount' = Len(pages)
     ELSE UNCHANGED <<pageItems, pageCount>>
  /\ Done("load", arg, TRUE)
  /\ UNCHANGED <<volume, playbackSpeed, muted, prevVolume, currentPage,
                 currentTime, totalTime, playbackState, seeking, mediaEl, el,
                 playPending, uncaught, searchVars, pageWritten, wakeVars, uiVars>>

loadText(pages, texts) == LoadModel(Len(pages), pages, texts, NoImages(pages))

load(pages) == loadText(pages, NoTexts(pages))

----------------------------------------------------------------------------
(* Decoding of the page texts (utils/text.ts base64ToUtf8, contentStore.load) *)

\* Strings are sequences of one-character strings; a binary string and a
\* decoded text are sequences of character codes.

\* the base64 alphabet, by value
B64 ==
  <<"A", "B", "C", "D", "E", "F", "G", "H", "I", "J", "K", "L", "M", "N", "O", "P",
    "Q", "R", "S", "T", "U", "V", "W", "X", "Y", "Z", "a", "b", "c", "d", "e", "f",
    "g", "h", "i", "j", "k", "l", "m", "n", "o", "p", "q", "r", "s", "t", "u", "v",
    "w", "x", "y", "z", "0", "1", "2", "3", "4", "5", "6", "7", "8", "9", "+", "/">>

B64Value(c) == (CHOOSE i \in 1 .. 64 : B64[i] = c) - 1

IsWhitespace(c) == c = " "

\* atob step 1 and 2: ASCII whitespace is removed; if the length is then a
\* multiple of 4, one or two trailing "=" are removed
StripPadding(data) ==
  LET d == SelectSeq(data, LAMBDA c : ~IsWhitespace(c))
      n == Len(d)
  IN IF n > 0 /\ n % 4 = 0 /\ d[n] = "="
     THEN IF d[n - 1] = "=" THEN SubSeq(d, 1, n - 2) ELSE SubSeq(d, 1, n - 1)
     ELSE d

\* atob throws InvalidCharacterError when the stripped length is 1 modulo 4 or a
\* character is outside the alphabet
AtobThrows(data) ==
  LET d == StripPadding(data)
  IN \/ Len(d) % 4 = 1
     \/ \E i \in 1 .. Len(d) : \A k \in 1 .. 64 : B64[k] # d[i]

\* the bytes of the 6-bit groups of d; the bits left over at the end are dropped
RECURSIVE DecodeGroups(_)
DecodeGroups(d) ==
  IF Len(d) >= 4
  THEN LET n == B64Value(d[1]) * 262144 + B64Value(d[2]) * 4096
                  + B64Value(d[3]) * 64 + B64Value(d[4])
       IN <<n \div 65536, (n \div 256) % 256, n % 256>>
            \o DecodeGroups(SubSeq(d, 5, Len(d)))
  ELSE IF Len(d) = 3
  THEN LET n == B64Value(d[1]) * 4096 + B64Value(d[2]) * 64 + B64Value(d[3])
       IN <<n \div 1024, (n \div 4) % 256>>
  ELSE IF Len(d) = 2
  THEN <<(B64Value(d[1]) * 64 + B64Value(d[2])) \div 16>>
  ELSE <<>>

\* atob(data) where it does not throw: the binary string
atob(data) == DecodeGroups(StripPadding(data))

ReplacementChar == 65533

\* new TextDecoder('utf-8').decode(bytes): the decoder is not fatal, so an
\* invalid byte becomes U+FFFD and nothing is thrown. One- and two-byte
\* sequences are decoded; the inputs hold no lead byte of a longer sequence.
RECURSIVE Utf8Decode(_)
Utf8Decode(bytes) ==
  IF bytes = <<>> THEN <<>>
  ELSE IF bytes[1] < 128
  THEN <<bytes[1]>> \o Utf8Decode(Tail(bytes))
  ELSE IF bytes[1] \in 194 .. 223 /\ Len(bytes) >= 2 /\ bytes[2] \in 128 .. 191
  THEN <<(bytes[1] - 192) * 64 + (bytes[2] - 128)>>
         \o Utf8Decode(SubSeq(bytes, 3, Len(bytes)))
  ELSE <<ReplacementChar>> \o Utf8Decode(Tail(bytes))

\* base64ToUtf8 throws what atob throws: atob is called outside the try block
Base64ToUtf8Throws(base64) == base64 # <<>> /\ AtobThrows(base64)

\* base64ToUtf8(base64) where it returns; the catch branch that returns the
\* binary string is never entered, because neither Uint8Array.from nor the
\* non-fatal decoder throws
base64ToUtf8(base64) ==
  IF base64 = <<>> THEN <<>> ELSE Utf8Decode(atob(base64))

\* contentStore.load over the parsed dataset encodedModel: the map over the
\* entries runs before this.pageModel is assigned, so an entry whose text makes
\* base64ToUtf8 throw leaves the store as it was and rejects load()
loadEncoded(encodedModel) ==
  IF \E i \in 1 .. Len(encodedModel) : Base64ToUtf8Throws(encodedModel[i].text)
  THEN /\ uncaught' = TRUE
       /\ Done("load", encodedModel, FALSE)
       /\ UNCHANGED <<storeVars, el, playPending, contentVars, pageWritten,
                      wakeVars, uiVars>>
  ELSE LoadModel(encodedModel,
                 [i \in 1 .. Len(encodedModel) |-> encodedModel[i].time],
                 [i \in 1 .. Len(encodedModel) |->
                    IF Len(encodedModel[i].text) > 0
                    THEN base64ToUtf8(encodedModel[i].text) ELSE <<>>],
                 [i \in 1 .. Len(encodedModel) |-> encodedModel[i].thumb])

CanSetPage_AllowsCurrent(page) ==
  ~ (pageCount <= 0 \/ ~IsFinite(page) \/ page = 0)
  /\ ~ (page < 1 \/ page > pageCount)

\* the result of setPage(page)
CanSetPage(page) ==
  ~ (pageCount <= 0 \/ ~IsFinite(page) \/ page = 0)
  /\ ~ (page < 1 \/ page > pageCount \/ page = currentPage)

SetPage(name, page) ==
  /\ currentPage' = IF CanSetPage(page) THEN page ELSE currentPage
  /\ Done(name, page, CanSetPage(page))
  /\ UNCHANGED <<volume, playbackSpeed, muted, prevVolume, pageCount, currentTime,
                 totalTime, playbackState, seeking, mediaEl, el, playPending,
                 uncaught, contentVars, pageWritten, wakeVars, uiVars>>

setPage(page) == SetPage("setPage", page)
nextPage == SetPage("nextPage", currentPage + 1)
prevPage == SetPage("prevPage", currentPage - 1)

\* pageData && pageData.timestamp, with every timestamp taken for a timestamp
PageSeeks_ZeroIsTimestamp(page) ==
  IF page \in DOMAIN pageModel THEN {pageModel[page]} ELSE {}

\* the seek target page's entry gives: pageData && pageData.timestamp is falsy
\* where the entry is missing and where its timestamp is 0
PageSeeks(page) ==
  IF page \in DOMAIN pageModel /\ pageModel[page] # 0
  THEN {pageModel[page]} ELSE {}

\* selectPage, selectNextPage, selectPrevPage of usePlayerControls: a page move
\* and, when the page has a (truthy) timestamp, media.seekTo(timestamp); ret
\* records the result of the move and the seeks requested
SelectPage(name, page) ==
  LET moved == CanSetPage(page)
      seeks == IF moved THEN PageSeeks(page) ELSE {}
  IN /\ IF seeks # {}
        THEN LET timestamp == CHOOSE ms \in seeks : TRUE
             IN /\ currentTime' = timestamp
                /\ el' = IF mediaEl # NoEl
                         THEN [el EXCEPT ![mediaEl].currentTime = Max(0, timestamp)]
                         ELSE el
                /\ WatchCurrentTime(page)
        ELSE /\ currentPage' = IF moved THEN page ELSE currentPage
             /\ UNCHANGED <<currentTime, el, pageWritten>>
     /\ Done(name, page, [moved |-> moved, seeks |-> seeks])
     /\ UNCHANGED <<volume, playbackSpeed, muted, prevVolume, pageCount,
                    totalTime, playbackState, seeking, mediaEl, playPending,
                    uncaught, contentVars, wakeVars, uiVars>>

selectPage(page) == SelectPage("selectPage", page)
selectNextPage == SelectPage("selectNextPage", currentPage + 1)
selectPrevPage == SelectPage("selectPrevPage", currentPage - 1)

\* a call of findPageForTimestamp on the current page list
findPage(timestamp) ==
  /\ Done("findPageForTimestamp", timestamp,
          findPageForTimestamp(pageModel, timestamp))
  /\ UNCHANGED <<storeVars, el, playPending, uncaught, contentVars, pageWritten,
                 wakeVars, uiVars>>

----------------------------------------------------------------------------
(* Text search (stores/contentStore.ts) *)

\* the characters of page texts and queries
Chars == {"a", "A", " "}
\* String.prototype.toLowerCase
LowerChar(c) == IF c = "A" THEN "a" ELSE c
toLowerCase(text) == [i \in 1 .. Len(text) |-> LowerChar(text[i])]
\* String.prototype.includes
includes(text, term) ==
  \E i \in 0 .. Len(text) - Len(term) : SubSeq(text, i + 1, i + Len(term)) = term

\* the texts of a page and the queries the search is given
PageTexts == {<<>>, <<"a">>, <<"A", " ">>}
Queries == {<<>>, <<" ">>, <<"a">>, <<"A">>, <<"a", "a">>}
TextLists(n) == [1 .. n -> PageTexts]
\* n pages, one every millisecond
EvenlyTimed(n) == [i \in 1 .. n |-> i * TimeScale]

\* the scan comparing the page text as it is written
MatchingPages_CaseSensitive(query) ==
  LET searchTerm == toLowerCase(query)
      Hit(index) == /\ pageText[index + 1] # <<>>
                    /\ includes(pageText[index + 1], searchTerm)
  IN SelectSeq([i \in 1 .. Len(pageModel) |-> i - 1], Hit)

\* the forEach of search: the 0-based indices of the pages whose text contains
\* the lowered query, in page order
MatchingPages(query) ==
  LET searchTerm == toLowerCase(query)
      Hit(index) == /\ pageText[index + 1] # <<>>
                    /\ includes(toLowerCase(pageText[index + 1]), searchTerm)
  IN SelectSeq([i \in 1 .. Len(pageModel) |-> i - 1], Hit)

\* a seekToMatch that takes the last page for a page index past the page list
SeekTargets_ClampsPage(matches, index, pages) ==
  IF index >= 0 /\ index < Len(matches)
  THEN LET pageIndex == matches[index + 1]
       IN IF pageIndex >= 0 /\ pages # <<>>
          THEN {pages[Min(pageIndex + 1, Len(pages))]}
          ELSE {}
  ELSE {}

\* seekToMatch: the timestamps it hands to seekTo (none or one), for the match
\* list, cursor and page list given
SeekTargets(matches, index, pages) ==
  IF index >= 0 /\ index < Len(matches)
  THEN LET pageIndex == matches[index + 1]
       IN IF pageIndex >= 0 /\ pageIndex < Len(pages)
          THEN {pages[pageIndex + 1]}
          ELSE {}
  ELSE {}

\* the effect of seekToMatch on the media controls store: seekTo(timestamp)
\* for the timestamp in targets, nothing when targets is empty
SeekToMatch(targets) ==
  /\ IF targets = {}
     THEN UNCHANGED <<currentTime, currentPage, el, pageWritten>>
     ELSE LET timestamp == CHOOSE t \in targets : TRUE
          IN /\ currentTime' = timestamp
             /\ el' = IF mediaEl # NoEl
                      THEN [el EXCEPT ![mediaEl].currentTime = Max(0, timestamp)]
                      ELSE el
             /\ WatchCurrentTime(currentPage)
  /\ UNCHANGED <<volume, playbackSpeed, muted, prevVolume, pageCount, totalTime,
                 playbackState, seeking, mediaEl, playPending, uncaught,
                 pageModel, pageItems, pageText, pageImage, wakeVars,
                 uiVars>>

search(query) ==
  IF query = <<>>
  THEN /\ Done("search", query, {})
       /\ UNCHANGED <<storeVars, el, playPending, uncaught, contentVars,
                      pageWritten, wakeVars, uiVars>>
  ELSE LET matches == MatchingPages(query)
           index == IF Len(matches) > 0 THEN 0 ELSE -1
           targets == SeekTargets(matches, index, pageModel)
       IN /\ lastQuery' = query
          /\ searchMatches' = matches
          /\ matchesTotal' = Len(matches)
          /\ currentMatchIndex' = index
          /\ matchesCurrent' = IF Len(matches) > 0 THEN 1 ELSE 0
          /\ SeekToMatch(targets)
          /\ Done("search", query, targets)

\* a reset that leaves the match list in place
ResetSearch_KeepsMatches ==
  /\ lastQuery' = <<>>
  /\ matchesTotal' = 0
  /\ matchesCurrent' = 0
  /\ currentMatchIndex' = -1
  /\ UNCHANGED searchMatches

\* cancelSearch and clear: the search state as the store creates it
ResetSearch ==
  /\ lastQuery' = <<>>
  /\ matchesTotal' = 0
  /\ matchesCurrent' = 0
  /\ searchMatches' = <<>>
  /\ currentMatchIndex' = -1

cancelSearch ==
  /\ IF lastQuery = <<>> /\ matchesTotal = 0 /\ matchesCurrent = 0
     THEN UNCHANGED searchVars
     ELSE ResetSearch
  /\ Done("cancelSearch", NoEl, {})
  /\ UNCHANGED <<storeVars, el, playPending, uncaught, pageModel, pageItems,
                 pageText, pageImage, pageWritten, wakeVars, uiVars>>

clear ==
  /\ ResetSearch
  /\ Done("clear", NoEl, {})
  /\ UNCHANGED <<storeVars, el, playPending, uncaught, pageModel, pageItems,
                 pageText, pageImage, pageWritten, wakeVars, uiVars>>

\* findNext and findPrev: the cursor moves to index and seekToMatch runs
MoveCursor(name, index) ==
  IF lastQuery = <<>> \/ matchesTotal = 0
  THEN /\ Done(name, NoEl, {})
       /\ UNCHANGED <<storeVars, el, playPending, uncaught, contentVars,
                      pageWritten, wakeVars, uiVars>>
  ELSE LET targets == SeekTargets(searchMatches, index, pageModel)
       IN /\ currentMatchIndex' = index
          /\ matchesCurrent' = index + 1
          /\ UNCHANGED <<lastQuery, matchesTotal, searchMatches>>
          /\ SeekToMatch(targets)
          /\ Done(name, NoEl, targets)

\* the cursor after findNext, for the cursor and match count given
NextMatch(index, total) == (index + 1) % total

\* a step back that stops at the first match
PrevMatch_NoWrap(index, total) == IF index <= 0 THEN 0 ELSE index - 1

\* the cursor after findPrev
PrevMatch(index, total) == IF index <= 0 THEN total - 1 ELSE index - 1

findNext == MoveCursor("findNext", NextMatch(currentMatchIndex, matchesTotal))

findPrev == MoveCursor("findPrev", PrevMatch(currentMatchIndex, matchesTotal))

\* seekToMatch called on its own, at the cursor as it stands
seekToMatch ==
  LET targets == SeekTargets(searchMatches, currentMatchIndex, pageModel)
  IN /\ UNCHANGED searchVars
     /\ SeekToMatch(targets)
     /\ Done("seekToMatch", NoEl, targets)

\* setMatchesTotal: the match count is written without the match list
setMatchesTotal(total) ==
  /\ matchesTotal' = total
  /\ Done("setMatchesTotal", total, {})
  /\ UNCHANGED <<lastQuery, matchesCurrent, searchMatches, currentMatchIndex,
                 storeVars, el, playPending, uncaught, pageModel, pageItems,
                 pageText, pageImage, pageWritten, wakeVars, uiVars>>

----------------------------------------------------------------------------
(* Keyboard shortcut dispatcher (composables/useKeyboard) *)

Platforms == {"Win32", "MacIntel"}

\* an optional boolean field of a descriptor: {} where it is undefined
OptBool == {{}, {TRUE}, {FALSE}}

\* what a handler returns: exactly false, a falsy value that is not false, or
\* nothing
HandlerResults == {"false", "0", "undefined"}

\* a guard: absent, or a function returning true or false at the event
Guards == {"none", "true", "false"}

isEditableTarget(target) ==
  IF ~target.isHTMLElement THEN FALSE
  ELSE IF target.isContentEditable THEN TRUE
  ELSE IF target.tagName \in {"INPUT", "TEXTAREA", "SELECT"} THEN TRUE
  ELSE target.type \in {"text", "search", "url", "email", "number",
                        "password", "tel"}

isMac == platform \in {"MacIntel", "iPhone", "iPad"}

\* the Ctrl state a descriptor asks for: {} where Ctrl is not checked
wantCtrl(def) == IF def.primary THEN {~isMac \/ def.ctrl = {TRUE}} ELSE def.ctrl

wantMeta_IgnoresMeta(def) == IF def.primary THEN {isMac} ELSE def.meta

\* the Meta state a descriptor asks for: {} where Meta is not checked
wantMeta(def) == IF def.primary THEN {isMac \/ def.meta = {TRUE}} ELSE def.meta

modsOk(e, def) ==
  /\ (wantCtrl(def) = {} \/ wantCtrl(def) = {e.ctrlKey})
  /\ (def.shift = {} \/ def.shift = {e.shiftKey})
  /\ (def.alt = {} \/ def.alt = {e.altKey})
  /\ (wantMeta(def) = {} \/ wantMeta(def) = {e.metaKey})

\* def.key and def.code are {} where undefined or the empty string (falsy)
matchKey(e, def) ==
  IF ~modsOk(e, def) THEN FALSE
  ELSE IF ~(def.key = {} \/ def.key = {e.key})
          \/ ~(def.code = {} \/ def.code = {e.code})
    THEN FALSE
  ELSE IF def.repeat = "true" THEN e.repeat
  ELSE IF def.repeat = "false" THEN ~e.repeat
  ELSE TRUE

Priority_Ignored(b) == 0

\* b.priority ?? 0
Priority(b) == IF b.priority = {} THEN 0 ELSE CHOOSE n \in b.priority : TRUE

\* Array.prototype.sort is stable: index i goes behind every index whose
\* binding's priority is at least its own
RECURSIVE InsertByPriority(_, _, _)
InsertByPriority(bs, sorted, i) ==
  IF sorted = <<>> THEN <<i>>
  ELSE IF Priority(bs[Head(sorted)]) >= Priority(bs[i])
    THEN <<Head(sorted)>> \o InsertByPriority(bs, Tail(sorted), i)
  ELSE <<i>> \o sorted

\* [...bindings].sort((a, b) => (b.priority ?? 0) - (a.priority ?? 0)), as the
\* registration indices of the bindings in sorted order
RECURSIVE SortedBindings(_, _)
SortedBindings(bs, n) ==
  IF n = 0 THEN <<>> ELSE InsertByPriority(bs, SortedBindings(bs, n - 1), n)

Consumed_Truthy(result) == result \notin {"false", "0", "undefined"}

\* result !== false
Consumed(result) == result # "false"

\* defs.some(d => matchKey(kbdEvent, d))
SomeMatch(e, b) == \E i \in 1 .. Len(b.keys) : matchKey(e, b.keys[i])

NoDispatch == [guards |-> <<>>, ran |-> <<>>, prevented |-> FALSE,
               stopped |-> FALSE]

\* the binding loop from position k of the sorted list; guards are the
\* bindings whose guard was called so far
RECURSIVE BindingLoop(_, _, _, _, _)
BindingLoop(e, bs, sorted, k, guards) ==
  IF k > Len(sorted) THEN [NoDispatch EXCEPT !.guards = guards]
  ELSE LET b == bs[sorted[k]]
           called == IF b.when = "none" THEN guards
                     ELSE Append(guards, sorted[k])
       IN  IF b.when = "false" THEN BindingLoop(e, bs, sorted, k + 1, called)
           ELSE IF SomeMatch(e, b)
             THEN [guards |-> called, ran |-> <<sorted[k]>>,
                   prevented |-> Consumed(b.returns),
                   stopped |-> Consumed(b.returns)]
           ELSE BindingLoop(e, bs, sorted, k + 1, called)

\* what onKeyDown does with event e: the guards it calls, the handler it
\* runs and the calls it makes on the event
Dispatch(kb, e) ==
  IF ~kb.enabled THEN NoDispatch
  ELSE IF kb.onlyInside /\ e.target.isNode /\ ~e.target.inside THEN NoDispatch
  ELSE IF kb.ignoreEditable /\ isEditableTarget(e.target) THEN NoDispatch
  ELSE BindingLoop(e, kb.bindings,
                   SortedBindings(kb.bindings, Len(kb.bindings)), 1, <<>>)

\* the listener on 'keydown' runs for the event the platform dispatches
onKeyDown ==
  /\ keyEvent # NoEvent
  /\ Done("onKeyDown", NoEl, Dispatch(keyboard, keyEvent))
  /\ UNCHANGED <<storeVars, el, playPending, uncaught, contentVars,
                 pageWritten, wakeVars, uiVars>>

----------------------------------------------------------------------------
(* Fullscreen/activity controller (composables/useFullscreenControls).      *)
(* Its state is module-level and shared by every consuming component.  The  *)
(* pending timeouts are the records of timers; window.setTimeout hands out  *)
(* the ids in increasing order.                                             *)

\* the components that use the controller
Consumers == 1 .. MaxConsumers

\* window.clearTimeout(id)
clearTimeout(id) == {t \in timers : t.id # id}

\* the timeout window.setTimeout(callback, ms) starts
setTimeout(ms) == [id |-> nextTimer, ms |-> ms]

clearHideTimer_KeepsTimeout ==
  /\ timers' = timers
  /\ hideControlsTimer' = NoTimer
  /\ UNCHANGED nextTimer

clearHideTimer ==
  /\ timers' = clearTimeout(hideControlsTimer)
  /\ hideControlsTimer' = NoTimer
  /\ UNCHANGED nextTimer

scheduleHideControls_NoClear(fs) ==
  IF fs
    THEN /\ timers' = timers \cup {setTimeout(HideDelayMs)}
         /\ hideControlsTimer' = nextTimer
         /\ nextTimer' = nextTimer + 1
    ELSE clearHideTimer

\* fs is fullscreen.value at the call
scheduleHideControls(fs) ==
  IF fs
    THEN /\ timers' = clearTimeout(hideControlsTimer) \cup {setTimeout(HideDelayMs)}
         /\ hideControlsTimer' = nextTimer
         /\ nextTimer' = nextTimer + 1
    ELSE clearHideTimer

\* the model follows the controller up to MaxTimers timeouts
CanSchedule(fs) == fs => nextTimer <= MaxTimers

onFullscreenChange(value) ==
  /\ CanSchedule(value)
  /\ fullscreen' = value
  /\ appFullscreen' = value
  /\ controlsVisible' = TRUE
  /\ scheduleHideControls(value)
  /\ listenersAttached' = value

playerFrame == <<storeVars, el, playPending, uncaught, contentVars,
                 pageWritten, wakeVars, keyVars, hidden,
                 toggles, aborting>>

\* onMounted of a consumer; the first one runs ensureGlobalListeners
mountConsumer(c) ==
  /\ c \notin fsMounted
  /\ fsMounted' = fsMounted \cup {c}
  /\ consumers' = consumers + 1
  /\ IF consumers + 1 = 1
       THEN /\ fsListener' = TRUE
            /\ onFullscreenChange(fullscreenElement)
            /\ Done("mountConsumer", c, {"addEventListener"})
       ELSE /\ UNCHANGED <<fsListener, fullscreen, appFullscreen,
                           controlsVisible, hideControlsTimer, timers,
                           nextTimer, listenersAttached>>
            /\ Done("mountConsumer", c, {})
  /\ UNCHANGED <<fullscreenElement, fsEvents, apiSupported, playerFrame>>

unmountConsumer_AlwaysRemoves(c) ==
  /\ c \in fsMounted
  /\ fsMounted' = fsMounted \ {c}
  /\ consumers' = Max(0, consumers - 1)
  /\ fsListener' = FALSE
  /\ listenersAttached' = FALSE
  /\ clearHideTimer
  /\ Done("unmountConsumer", c, {"removeEventListener"})
  /\ UNCHANGED <<fullscreen, appFullscreen, controlsVisible,
                 fullscreenElement, fsEvents, apiSupported, playerFrame>>

\* onUnmounted of a consumer; the last one runs removeGlobalListeners
unmountConsumer(c) ==
  /\ c \in fsMounted
  /\ fsMounted' = fsMounted \ {c}
  /\ consumers' = Max(0, consumers - 1)
  /\ IF Max(0, consumers - 1) = 0
       THEN /\ fsListener' = FALSE
            /\ listenersAttached' = FALSE
            /\ clearHideTimer
            /\ Done("unmountConsumer", c, {"removeEventListener"})
       ELSE /\ UNCHANGED <<fsListener, listenersAttached, hideControlsTimer,
                           timers, nextTimer>>
            /\ Done("unmountConsumer", c, {})
  /\ UNCHANGED <<fullscreen, appFullscreen, controlsVisible,
                 fullscreenElement, fsEvents, apiSupported, playerFrame>>

\* with the Fullscreen API the call asks the platform, which answers by
\* platformFullscreen or not at all (a rejection is caught and logged);
\* without it the simulated state is toggled at once
toggleFullscreen ==
  /\ IF apiSupported
       THEN UNCHANGED <<fullscreen, appFullscreen, controlsVisible,
                        hideControlsTimer, timers, nextTimer,
                        listenersAttached>>
       ELSE onFullscreenChange(~appFullscreen)
  /\ Done("toggleFullscreen", NoEl, TRUE)
  /\ UNCHANGED <<fsMounted, consumers, fsListener, fullscreenElement,
                 fsEvents, apiSupported, playerFrame>>

\* the document enters or leaves fullscreen (a granted request, the Escape
\* key) and the platform queues a fullscreenchange event
platformFullscreen ==
  /\ apiSupported
  /\ fsEvents < MaxFsEvents
  /\ fullscreenElement' = ~fullscreenElement
  /\ fsEvents' = fsEvents + 1
  /\ Done("platformFullscreen", NoEl, TRUE)
  /\ UNCHANGED <<fsMounted, consumers, fsListener, fullscreen, appFullscreen,
                 controlsVisible, hideControlsTimer, timers, nextTimer,
                 listenersAttached, apiSupported, playerFrame>>

\* a queued fullscreenchange event is dispatched at the document: onFsEvent
\* runs if it is registered
fullscreenchange ==
  /\ fsEvents > 0
  /\ fsEvents' = fsEvents - 1
  /\ IF fsListener
       THEN onFullscreenChange(fullscreenElement)
       ELSE UNCHANGED <<fullscreen, appFullscreen, controlsVisible,
                        hideControlsTimer, timers, nextTimer,
                        listenersAttached>>
  /\ Done("fullscreenchange", NoEl, fsListener)
  /\ UNCHANGED <<fsMounted, consumers, fsListener, fullscreenElement,
                 apiSupported, playerFrame>>

\* called by the activity listeners and by the controls bar
onUserActivity ==
  /\ CanSchedule(fullscreen)
  /\ IF ~fullscreen
       THEN UNCHANGED <<controlsVisible, hideControlsTimer, timers, nextTimer>>
       ELSE /\ controlsVisible' = TRUE
            /\ scheduleHideControls(fullscreen)
  /\ Done("onUserActivity", NoEl, fullscreen)
  /\ UNCHANGED <<fsMounted, consumers, fsListener, fullscreen, appFullscreen,
                 listenersAttached, fullscreenElement, fsEvents, apiSupported,
                 playerFrame>>

\* the pending timeout t expires: its callback hides the controls
hideTimerFires(t) ==
  /\ t \in timers
  /\ timers' = timers \ {t}
  /\ controlsVisible' = FALSE
  /\ Done("hideTimerFires", t.id, TRUE)
  /\ UNCHANGED <<fsMounted, consumers, fsListener, fullscreen, appFullscreen,
                 hideControlsTimer, nextTimer, listenersAttached,
                 fullscreenElement, fsEvents, apiSupported, playerFrame>>

----------------------------------------------------------------------------
(* Specifications *)

\* the whole program
Next ==
  \/ \E e \in Elems : attachMedia(e)
  \/ detachMedia
  \/ \E ms \in SeekInputs : seekTo(ms)
  \/ startSeeking
  \/ stopSeeking
  \/ \E e \in Elems : onTimeUpdate(e)
  \/ \E e \in Elems : onDurationChange(e)
  \/ \E e \in Elems, ev \in PhaseEvents : onPhase(e, ev)
  \/ \E e \in Elems : onVolumeChange(e)
  \/ \E e \in Elems : onRateChange(e)
  \/ \E v \in VolumeInputs : setVolume(v)
  \/ toggleMute
  \/ \E v \in SpeedInputs : setPlaybackSpeed(v)
  \/ \E a \in BOOLEAN : play(a)
  \/ pause
  \/ \E a \in BOOLEAN : togglePlayPause(a)
  \/ playResolved
  \/ playRejected
  \/ \E e \in Elems, t \in ElementTimes : elementTime(e, t)
  \/ \E e \in Elems, v \in ExternalVolumes, m \in BOOLEAN : elementVolume(e, v, m)
  \/ \E e \in Elems, r \in ExternalRates : elementRate(e, r)
  \/ \E e \in Elems, d \in Durations : elementDuration(e, d)
  \/ \E e \in Elems : elementEnded(e)
  \/ \E pages \in PageLists : load(pages)
  \/ \E page \in PageInputs : setPage(page)
  \/ nextPage
  \/ prevPage
  \/ \E page \in PageInputs : selectPage(page)
  \/ selectNextPage
  \/ selectPrevPage
  \/ RequestGranted
  \/ RequestDenied
  \/ \E s \in 1 .. MaxSentinels : ReleaseSettled(s)
  \/ \E s \in 1 .. MaxSentinels : PlatformRelease(s)

Spec == Init /\ [][Next]_vars

\* a platform without the Screen Wake Lock API
InitNoWakeLock == Init /\ ~isSupported

\* the playback position: seeking, time updates, the element's own progress
NextSeek ==
  \/ \E e \in Elems : attachMedia(e)
  \/ detachMedia
  \/ \E ms \in SeekInputs : seekTo(ms)
  \/ startSeeking
  \/ stopSeeking
  \/ \E e \in Elems : onTimeUpdate(e)
  \/ \E e \in Elems, t \in ElementTimes : elementTime(e, t)

SpecSeek == InitNoWakeLock /\ [][NextSeek]_vars

\* the binding: attach, detach, and every notification of every element, the
\* elements changing their position and their rate on their own
NextBind ==
  \/ \E e \in Elems : attachMedia(e)
  \/ detachMedia
  \/ \E e \in Elems : onTimeUpdate(e)
  \/ \E e \in Elems : onDurationChange(e)
  \/ \E e \in Elems, ev \in PhaseEvents : onPhase(e, ev)
  \/ \E e \in Elems : onVolumeChange(e)
  \/ \E e \in Elems : onRateChange(e)
  \/ \E e \in Elems : elementTime(e, MaxTime)
  \/ \E e \in Elems, r \in ExternalRates : elementRate(e, r)

SpecBind == InitNoWakeLock /\ [][NextBind]_vars

\* playback of one element: play, pause and the phase notifications, next to
\* the other store operations
NextPlayback ==
  \/ attachMedia("A")
  \/ detachMedia
  \/ \E a \in BOOLEAN : play(a)
  \/ pause
  \/ \E a \in BOOLEAN : togglePlayPause(a)
  \/ playResolved
  \/ playRejected
  \/ \E ev \in PhaseEvents : onPhase("A", ev)
  \/ elementEnded("A")
  \/ seekTo(MaxTime)
  \/ startSeeking
  \/ stopSeeking
  \/ toggleMute
  \/ setPlaybackSpeed(MaxSpeed)

SpecPlayback == InitNoWakeLock /\ [][NextPlayback]_vars

\* timestamps findPageForTimestamp is asked for
FindInputs == -1 .. MaxTime + 1

\* the page lookup over the longer page lists
NextFind ==
  \/ \E pages \in SortedLists(MaxFindPages) : load(pages)
  \/ \E t \in FindInputs : findPage(t)

SpecFind == InitNoWakeLock /\ [][NextFind]_vars

\* pages: content loads, page navigation, seeks and the time updates of one
\* element
NextPages ==
  \/ \E pages \in PageLists : load(pages)
  \/ \E p \in PageInputs : setPage(p)
  \/ nextPage
  \/ prevPage
  \/ \E p \in PageInputs : selectPage(p)
  \/ selectNextPage
  \/ selectPrevPage
  \/ \E ms \in SeekInputs : seekTo(ms)
  \/ attachMedia("A")
  \/ \E t \in ElementTimes : elementTime("A", t)
  \/ onTimeUpdate("A")

SpecPages == InitNoWakeLock /\ [][NextPages]_vars

\* page selection: content loads (also of fewer pages than the store counts)
\* and the three page-navigation operations, with and without an element
NextSelect ==
  \/ \E pages \in PageLists : load(pages)
  \/ \E p \in PageInputs : selectPage(p)
  \/ selectNextPage
  \/ selectPrevPage
  \/ attachMedia("A")

SpecSelect == InitNoWakeLock /\ [][NextSelect]_vars

\* the encoded texts of the entries: empty, "a", "a" without padding, "e" with
\* an acute accent (two bytes in UTF-8), the byte 0xFF (not UTF-8), and two
\* strings that are not base64
EncodedTexts ==
  {<<>>, <<"Y", "Q", "=", "=">>, <<"Y", "Q">>, <<"w", "6", "k", "=">>,
   <<"/", "w", "=", "=">>, <<"Y">>, <<"Y", "%", "=", "=">>}
Thumbs == {"thumb1", "thumb2"}

EntryTimes == {0, TimeScale}

\* the datasets load() parses: up to MaxEntries entries, in the order of their
\* times
EncodedModels ==
  {m \in UNION {[1 .. k -> [time : EntryTimes, text : EncodedTexts,
                            thumb : Thumbs]] : k \in 0 .. MaxEntries} :
     \A i \in 1 .. Len(m) - 1 : m[i].time <= m[i + 1].time}

\* load() of every dataset, into the empty store and again after a load that
\* completed with at most one page
NextLoad ==
  /\ Len(pageModel) <= 1
  /\ op.ret = TRUE
  /\ \E m \in EncodedModels : loadEncoded(m)

SpecLoad == InitNoWakeLock /\ [][NextLoad]_vars

\* the page lists whose pages have distinct timestamps
DistinctLists ==
  {pages \in PageLists : \A i \in 1 .. Len(pages) - 1 : pages[i] < pages[i + 1]}

\* the page follows the time: every way currentTime changes (seeks, page
\* selection, the element's time updates) over page lists of distinct timestamps
NextTimePage ==
  \/ \E pages \in DistinctLists : load(pages)
  \/ \E p \in PageInputs : selectPage(p)
  \/ \E ms \in SeekInputs : seekTo(ms)
  \/ attachMedia("A")
  \/ \E t \in ElementTimes : elementTime("A", t)
  \/ onTimeUpdate("A")

SpecTimePage == InitNoWakeLock /\ [][NextTimePage]_vars

\* one dataset of distinct timestamps loaded into the store as it was created,
\* then page selection, seeks and the time updates of one element
NextSettle ==
  \/ op.name = "init" /\ \E pages \in DistinctLists : load(pages)
  \/ \E p \in PageInputs : selectPage(p)
  \/ selectNextPage
  \/ selectPrevPage
  \/ \E ms \in SeekInputs : seekTo(ms)
  \/ attachMedia("A")
  \/ \E t \in ElementTimes : elementTime("A", t)
  \/ onTimeUpdate("A")

SpecSettle == InitNoWakeLock /\ [][NextSettle]_vars

\* a pause() during a pending play request, with the element's pause task
NextAbort ==
  \/ \E e \in {"A", "B"} : attachMedia(e)
  \/ \E a \in BOOLEAN : play(a)
  \/ playResolved
  \/ \E ev \in PhaseEvents : onPhase("A", ev)
  \/ pauseWhilePlaying
  \/ pauseEvent
  \/ playAborted

SpecAbort == InitNoWakeLock /\ [][NextAbort]_vars

\* the wake lock: the phase notifications of one element and the platform's
\* answers to the requests and releases the playbackState watcher issues
NextWake ==
  \/ attachMedia("A")
  \/ \E ev \in PhaseEvents : onPhase("A", ev)
  \/ RequestGranted
  \/ RequestDenied
  \/ \E s \in 1 .. MaxSentinels : ReleaseSettled(s)
  \/ \E s \in 1 .. MaxSentinels : PlatformRelease(s)

SpecWake == Init /\ [][NextWake]_vars

\* volume and mute: the store's operations, the element's volume changing from
\* outside, the volume-change notification
NextVolume ==
  \/ attachMedia("A")
  \/ detachMedia
  \/ \E v \in VolumeInputs : setVolume(v)
  \/ toggleMute
  \/ onVolumeChange("A")
  \/ \E v \in ExternalVolumes, m \in BOOLEAN : elementVolume("A", v, m)

SpecVolume == InitNoWakeLock /\ [][NextVolume]_vars

\* setVolume called with every kind of number, NaN included; the other
\* operations are followed from stores whose volume is a finite number
SetVolumeInputs == VolumeInputs \cup {1, 80, NaN}

NextSetVolume ==
  \/ IsFinite(volume) /\ attachMedia("A")
  \/ detachMedia
  \/ \E v \in SetVolumeInputs : setVolume(v)
  \/ IsFinite(volume) /\ toggleMute

SpecSetVolume == InitNoWakeLock /\ [][NextSetVolume]_vars

\* two toggleMute() calls with nothing but the element's volume-change
\* notifications between them; everything else happens outside such a pair
NextMute ==
  \/ Len(toggles) # 1 /\ attachMedia("A")
  \/ Len(toggles) # 1 /\ detachMedia
  \/ Len(toggles) # 1 /\ \E v \in VolumeInputs : setVolume(v)
  \/ Len(toggles) # 1 /\
       \E v \in ExternalVolumes, m \in BOOLEAN : elementVolume("A", v, m)
  \/ toggleMute
  \/ onVolumeChange("A")

SpecMute == InitNoWakeLock /\ [][NextMute]_vars

\* speed: setPlaybackSpeed, the element's rate changing from outside, the
\* rate-change notification
NextSpeed ==
  \/ attachMedia("A")
  \/ detachMedia
  \/ \E v \in SpeedInputs : setPlaybackSpeed(v)
  \/ onRateChange("A")
  \/ \E r \in ExternalRates : elementRate("A", r)

SpecSpeed == InitNoWakeLock /\ [][NextSpeed]_vars

\* text search: content loads with page texts and the search operations
NextSearch ==
  \/ \E n \in 0 .. MaxPages :
       \E texts \in TextLists(n) : loadText(EvenlyTimed(n), texts)
  \/ \E q \in Queries : search(q)
  \/ cancelSearch
  \/ clear
  \/ findNext
  \/ findPrev

SpecSearch == InitNoWakeLock /\ [][NextSearch]_vars

\* a search whose page list is replaced and whose match count is overwritten
\* while it is active
MatchTotals == 0 .. MaxPages + 1

NextStale ==
  \/ \E n \in 0 .. MaxPages :
       \E texts \in [1 .. n -> {<<>>, <<"a">>}] : loadText(EvenlyTimed(n), texts)
  \/ search(<<"a">>)
  \/ findNext
  \/ findPrev
  \/ seekToMatch
  \/ \E total \in MatchTotals : setMatchesTotal(total)
  \/ attachMedia("A")

SpecStale == InitNoWakeLock /\ [][NextStale]_vars

----------------------------------------------------------------------------
\* a key descriptor (KeyDef)
KeyDef(key, code, ctrl, shift, alt, meta, primary, repeat) ==
  [key |-> key, code |-> code, ctrl |-> ctrl, shift |-> shift, alt |-> alt,
   meta |-> meta, primary |-> primary, repeat |-> repeat]

\* { key: 'k' } and { key: 'j' }
OnK == KeyDef({"k"}, {}, {}, {}, {}, {}, FALSE, "undefined")
OnJ == KeyDef({"j"}, {}, {}, {}, {}, {}, FALSE, "undefined")

\* a <div> inside (or outside) the scope root
Div(inside) == Target(TRUE, TRUE, inside, FALSE, "DIV", "")

\* the key K pressed alone on a <div>
PlainK == [key |-> "k", code |-> "KeyK", ctrlKey |-> FALSE, shiftKey |-> FALSE,
           altKey |-> FALSE, metaKey |-> FALSE, repeat |-> FALSE,
           target |-> Div(TRUE)]

\* the binding lists of at most n bindings drawn from S
BindingLists(S, n) == UNION {[1 .. m -> S] : m \in 0 .. n}

DefaultOptions(bs) == [bindings |-> bs, enabled |-> TRUE,
                       ignoreEditable |-> TRUE, onlyInside |-> FALSE]

\* one dispatcher, mounted with given bindings and options, receives one event
NextKey == onKeyDown

----------------------------------------------------------------------------
(* The application's shortcuts (composables/useKeyboardShortcuts) *)

Key_Repeating(k) == KeyDef({k}, {}, {}, {}, {}, {}, FALSE, "undefined")

\* { key: k, repeat: false }
Key(k) == KeyDef({k}, {}, {}, {}, {}, {}, FALSE, "false")

\* { key: k, shift: true, repeat: false }
ShiftKey(k) == KeyDef({k}, {}, {}, {TRUE}, {}, {}, FALSE, "false")

\* a binding of the list: no guard, no priority, a handler that returns nothing
Shortcut(keys, handler) ==
  [keys |-> keys, priority |-> {}, when |-> "none", returns |-> "undefined",
   handler |-> handler]

\* the shortcuts array, showShortcutsDialog being supplied or not
Shortcuts(help) ==
  << Shortcut(<<Key(" "), Key("k")>>, "togglePlayPause"),
     Shortcut(<<Key("ArrowLeft")>>, "selectPrevPage"),
     Shortcut(<<Key("ArrowRight")>>, "selectNextPage"),
     Shortcut(<<Key("Home")>>, "selectFirstPage"),
     Shortcut(<<Key("End")>>, "selectLastPage"),
     Shortcut(<<Key("ArrowUp")>>, "volumeUp"),
     Shortcut(<<Key("ArrowDown")>>, "volumeDown"),
     Shortcut(<<Key("m")>>, "toggleMute"),
     Shortcut(<<Key("f")>>, "toggleFullscreen"),
     Shortcut(<<Key(">"), ShiftKey(">")>>, "speedUp"),
     Shortcut(<<Key("<"), ShiftKey("<")>>, "speedDown"),
     Shortcut(<<Key("0"), Key("=")>>, "speedReset") >>
  \o (IF help THEN <<Shortcut(<<Key("?")>>, "showShortcutsDialog")>> ELSE <<>>)

\* speedIncrements, in hundredths
speedIncrements == <<25, 50, 75, 100, 125, 150, 175, 200>>

SpeedUp_NotStrict(currentSpeed) ==
  LET higher == {i \in DOMAIN speedIncrements : speedIncrements[i] >= currentSpeed}
      nextIndex == IF higher = {} THEN Len(speedIncrements)
                   ELSE CHOOSE i \in higher : \A j \in higher : i <= j
  IN speedIncrements[nextIndex]

\* the speed the speed-up handler passes on: findIndex(speed => speed >
\* currentSpeed), the last index when there is none
SpeedUp(currentSpeed) ==
  LET higher == {i \in DOMAIN speedIncrements : speedIncrements[i] > currentSpeed}
      nextIndex == IF higher = {} THEN Len(speedIncrements)
                   ELSE CHOOSE i \in higher : \A j \in higher : i <= j
  IN speedIncrements[nextIndex]

\* the speed the speed-down handler passes on: the last index whose speed is
\* below currentSpeed, index 0 when there is none
SpeedDown(currentSpeed) ==
  LET lower == {i \in DOMAIN speedIncrements : speedIncrements[i] < currentSpeed}
      prevIndex == IF lower = {} THEN 1
                   ELSE CHOOSE i \in lower : \A j \in lower : i >= j
  IN speedIncrements[prevIndex]

\* the callback the application supplies for '?': it opens the help dialog,
\* which no variable of the model holds
showShortcutsDialog ==
  /\ Done("showShortcutsDialog", NoEl, TRUE)
  /\ UNCHANGED <<storeVars, el, playPending, uncaught, contentVars,
                 pageWritten, wakeVars, uiVars>>

\* the handler of a binding of the shortcuts array
ShortcutHandler(handler) ==
  CASE handler = "togglePlayPause" -> \E allowed \in BOOLEAN : togglePlayPause(allowed)
    [] handler = "selectPrevPage" -> selectPrevPage
    [] handler = "selectNextPage" -> selectNextPage
    [] handler = "selectFirstPage" -> selectPage(1)
    [] handler = "selectLastPage" -> selectPage(pageCount)
    [] handler = "volumeUp" -> setVolume(Min(100, volume + 5) * VolScale)
    [] handler = "volumeDown" -> setVolume(Max(0, volume - 5) * VolScale)
    [] handler = "toggleMute" -> toggleMute
    [] handler = "toggleFullscreen" -> toggleFullscreen
    [] handler = "speedUp" -> setPlaybackSpeed(SpeedUp(playbackSpeed))
    [] handler = "speedDown" -> setPlaybackSpeed(SpeedDown(playbackSpeed))
    [] handler = "speedReset" -> setPlaybackSpeed(100)
    [] handler = "showShortcutsDialog" -> showShortcutsDialog

\* the 'keydown' listener of the dispatcher the shortcuts are installed in:
\* the handler of the binding that matched runs, if one did
onShortcutKeyDown ==
  LET dispatch == Dispatch(keyboard, keyEvent)
  IN IF dispatch.ran = <<>>
     THEN onKeyDown
     ELSE ShortcutHandler(keyboard.bindings[dispatch.ran[1]].handler)

\* an <input type="text">
TextInput == Target(TRUE, TRUE, TRUE, FALSE, "INPUT", "text")

\* the keys pressed: the bound ones, a capital letter and an unbound key
ShortcutKeys == {" ", "k", "ArrowLeft", "ArrowRight", "Home", "End", "ArrowUp",
                 "ArrowDown", "m", "f", ">", "<", "0", "=", "?", "K", "x"}

ShortcutEvents ==
  {[key |-> k, code |-> "", ctrlKey |-> FALSE, shiftKey |-> s, altKey |-> FALSE,
    metaKey |-> FALSE, repeat |-> r, target |-> t] :
     k \in ShortcutKeys, s \in BOOLEAN, r \in BOOLEAN, t \in {Div(TRUE), TextInput}}

\* useKeyboardShortcuts has installed the shortcuts, with or without the help
\* callback; the key the user presses is the same during a behaviour
InitShortcuts ==
  /\ InitPlayer /\ ~isSupported
  /\ InitFullscreen /\ apiSupported = TRUE
  /\ platform = "Win32"
  /\ keyboard \in {DefaultOptions(Shortcuts(help)) : help \in BOOLEAN}
  /\ keyEvent \in ShortcutEvents

\* the element's rate and volume change from outside in the behaviours that
\* press a speed key or a volume key
SpeedKeys == {">", "<", "0", "="}
VolumeKeys == {"ArrowUp", "ArrowDown", "m"}

NextShortcuts ==
  \/ onShortcutKeyDown
  \/ load(EvenlyTimed(MaxPages))
  \/ attachMedia("A")
  \/ keyEvent.key \in SpeedKeys /\ \E r \in ExternalRates : elementRate("A", r)
  \/ keyEvent.key \in SpeedKeys /\ onRateChange("A")
  \/ keyEvent.key \in VolumeKeys /\ elementVolume("A", 101, FALSE)
  \/ keyEvent.key \in VolumeKeys /\ onVolumeChange("A")

SpecShortcuts == InitShortcuts /\ [][NextShortcuts]_vars

\* priorities and guards: bindings on the pressed key or on another key
OrderBindings == [keys : {<<OnK>>, <<OnJ>>}, priority : {{}, {1}, {-1}},
                  when : Guards, returns : {"undefined"}]

InitKeyOrder ==
  /\ InitPlayer /\ ~isSupported
  /\ InitFullscreen /\ apiSupported = TRUE
  /\ platform = "Win32"
  /\ keyboard \in {DefaultOptions(bs) : bs \in BindingLists(OrderBindings, MaxBindings)}
  /\ keyEvent = PlainK

SpecKeyOrder == InitKeyOrder /\ [][NextKey]_vars

\* handler results: bindings of one or two descriptors without guards
ResultBindings == [keys : {<<OnK>>, <<OnJ>>, <<OnJ, OnK>>}, priority : {{}},
                   when : {"none"}, returns : HandlerResults]

InitKeyResult ==
  /\ InitPlayer /\ ~isSupported
  /\ InitFullscreen /\ apiSupported = TRUE
  /\ platform = "Win32"
  /\ keyboard \in {DefaultOptions(bs) : bs \in BindingLists(ResultBindings, MaxBindings)}
  /\ keyEvent = PlainK

SpecKeyResult == InitKeyResult /\ [][NextKey]_vars

\* the targets a key-down event can have: elements inside and outside the
\* scope root, form controls, a content-editable element, an SVG element, a
\* custom element with a text-like type, the document body and the window
KeyTargets ==
  {Div(TRUE), Div(FALSE), Window,
   Target(TRUE, TRUE, TRUE, FALSE, "INPUT", "text"),
   Target(TRUE, TRUE, FALSE, FALSE, "INPUT", "text"),
   Target(TRUE, TRUE, TRUE, FALSE, "INPUT", "checkbox"),
   Target(TRUE, TRUE, TRUE, FALSE, "TEXTAREA", "textarea"),
   Target(TRUE, TRUE, TRUE, FALSE, "SELECT", "select-one"),
   Target(TRUE, TRUE, TRUE, TRUE, "DIV", ""),
   Target(TRUE, TRUE, TRUE, FALSE, "BUTTON", "submit"),
   Target(TRUE, TRUE, TRUE, FALSE, "X-FIELD", "search"),
   Target(TRUE, FALSE, TRUE, FALSE, "svg", ""),
   Target(TRUE, FALSE, FALSE, FALSE, "svg", ""),
   Target(TRUE, TRUE, FALSE, FALSE, "BODY", "")}

GateBindings == [keys : {<<OnK>>}, priority : {{}}, when : {"none", "true"},
                 returns : HandlerResults]

\* options and targets: one binding on the pressed key
InitKeyGate ==
  /\ InitPlayer /\ ~isSupported
  /\ InitFullscreen /\ apiSupported = TRUE
  /\ platform = "Win32"
  /\ keyboard \in [bindings : BindingLists(GateBindings, 1), enabled : BOOLEAN,
                   ignoreEditable : BOOLEAN, onlyInside : BOOLEAN]
  /\ keyEvent \in {[PlainK EXCEPT !.target = t] : t \in KeyTargets}

SpecKeyGate == InitKeyGate /\ [][NextKey]_vars

KeyDefs == {KeyDef(key, code, ctrl, shift, alt, meta, primary, repeat) :
              key \in {{}, {"k"}}, code \in {{}, {"KeyK"}}, ctrl \in OptBool,
              shift \in OptBool, alt \in {{}, {TRUE}}, meta \in OptBool,
              primary \in BOOLEAN,
              repeat \in {"undefined", "true", "false", "allow"}}

KeyEvents == {[key |-> kc[1], code |-> kc[2], ctrlKey |-> c, shiftKey |-> s,
               altKey |-> a, metaKey |-> m, repeat |-> r, target |-> Div(TRUE)] :
                kc \in {<<"k", "KeyK">>, <<"j", "KeyJ">>, <<"j", "KeyK">>},
                c \in BOOLEAN, s \in BOOLEAN, a \in BOOLEAN, m \in BOOLEAN,
                r \in BOOLEAN}

\* descriptors, events and platforms: one binding of one descriptor
InitKeyMatch ==
  /\ InitPlayer /\ ~isSupported
  /\ InitFullscreen /\ apiSupported = TRUE
  /\ platform \in Platforms
  /\ keyboard \in {DefaultOptions(<<[keys |-> <<d>>, priority |-> {},
                                     when |-> "none", returns |-> "undefined"]>>) :
                     d \in KeyDefs}
  /\ keyEvent \in KeyEvents

SpecKeyMatch == InitKeyMatch /\ [][NextKey]_vars

----------------------------------------------------------------------------
\* the fullscreen controller, its consumers, the document and the timeouts
NextFullscreen ==
  \/ \E c \in Consumers : mountConsumer(c)
  \/ \E c \in Consumers : unmountConsumer(c)
  \/ toggleFullscreen
  \/ platformFullscreen
  \/ fullscreenchange
  \/ onUserActivity
  \/ \E t \in timers : hideTimerFires(t)

InitFullscreenSpec ==
  /\ InitPlayer /\ ~isSupported
  /\ InitKeyboard
  /\ InitFullscreen
  /\ apiSupported \in BOOLEAN

SpecFullscreen == InitFullscreenSpec /\ [][NextFullscreen]_vars

----------------------------------------------------------------------------
\* the wake lock composable called directly, and the platform's answers
NextWakeCalls ==
  \/ requestWakeLock
  \/ \E b \in BOOLEAN : handleVisibilityChange(b)
  \/ visibilitychange
  \/ RequestGranted
  \/ RequestDenied
  \/ \E s \in 1 .. MaxSentinels : ReleaseSettled(s)
  \/ \E s \in 1 .. MaxSentinels : PlatformRelease(s)

SpecWakeCalls == Init /\ [][NextWakeCalls]_vars

\* locks that only the platform releases
NextRelease ==
  \/ requestWakeLock
  \/ RequestGranted
  \/ RequestDenied
  \/ \E s \in 1 .. MaxSentinels : PlatformRelease(s)
  \/ attachMedia("A")
  \/ \E ev \in PhaseEvents : onPhase("A", ev)

SpecRelease == Init /\ [][NextRelease]_vars

\* every operation of the wake lock composable in every order, with the
\* platform's completions and its own releases
NextWakeOps ==
  \/ requestWakeLock
  \/ releaseWakeLock
  \/ \E b \in BOOLEAN : handleVisibilityChange(b)
  \/ visibilitychange
  \/ RequestGranted
  \/ RequestDenied
  \/ \E s \in 1 .. MaxSentinels : ReleaseSettled(s)
  \/ \E s \in 1 .. MaxSentinels : PlatformRelease(s)

SpecWakeOps == Init /\ [][NextWakeOps]_vars

\* the page hidden and shown while the player is playing, on a platform that
\* grants every request and releases locks on its own only while the page is
\* hidden
NextVisibility ==
  \/ attachMedia("A")
  \/ onPhase("A", "play")
  \/ visibilitychange
  \/ RequestGranted
  \/ \E s \in 1 .. MaxSentinels : ReleaseSettled(s)
  \/ \E s \in 1 .. MaxSentinels : hidden /\ PlatformRelease(s)

SpecVisibility == Init /\ [][NextVisibility]_vars

\* the stop and reset operations of the three stores next to the operations
\* that start what they stop: binding an element, acquiring the wake lock,
\* searching two pages of text
NextStop ==
  \/ attachMedia("A")
  \/ detachMedia
  \/ requestWakeLock
  \/ releaseWakeLock
  \/ RequestGranted
  \/ \E s \in 1 .. MaxSentinels : ReleaseSettled(s)
  \/ loadText(EvenlyTimed(2), <<<<"a">>, <<"A", " ">>>>)
  \/ \E q \in Queries : search(q)
  \/ cancelSearch

SpecStop == Init /\ [][NextStop]_vars

----------------------------------------------------------------------------
\* the page cursor: loads and reloads, page moves with targets in and out of
\* range, and seeks, after which the time-driven page can lie beyond pageCount
NavInputs == PageInputs \cup {-1, NaN}

NextNav ==
  \/ \E pages \in PageLists : load(pages)
  \/ \E p \in NavInputs : setPage(p)
  \/ nextPage
  \/ prevPage
  \/ \E ms \in SeekInputs : seekTo(ms)

SpecNav == InitNoWakeLock /\ [][NextNav]_vars

----------------------------------------------------------------------------
(* Claims *)

\* everything but the record of the last operation
stateVars == <<storeVars, el, playPending, uncaught, contentVars, pageWritten,
               wakeVars, uiVars>>

Notifications == {"onTimeUpdate", "onDurationChange", "onPlay", "onPause",
                  "onEnded", "onError", "onVolumeChange", "onRateChange"}

\* C1: while seeking is true, a time-update notification of the element never
\* changes the store's currentTime, whatever seekTo calls and notifications
\* come between startSeeking and stopSeeking; stopSeeking clears the flag and
\* sets currentTime to the attached element's position (in whole milliseconds,
\* not below 0), and leaves currentTime unchanged when no element is attached.
C1_SeekingSuspendsTimeUpdates ==
  [][ /\ (seeking /\ op'.name = "onTimeUpdate") => currentTime' = currentTime
      /\ op'.name = "stopSeeking" =>
           /\ seeking' = FALSE
           /\ currentTime' = IF mediaEl = NoEl
                             THEN currentTime
                             ELSE Max(0, FloorMs(el[mediaEl].currentTime))
    ]_vars

\* a time update of the bound element arrived during a drag and its position
\* differs from the store's currentTime
C1_Witness ==
  /\ seeking
  /\ op.name = "onTimeUpdate"
  /\ op.arg = mediaEl
  /\ Max(0, FloorMs(el[mediaEl].currentTime)) # currentTime

\* C2: after any sequence of attachMedia and detachMedia calls the bound
\* element carries exactly one store listener per notification and every other
\* element carries none, and a notification fired by an element that is not
\* the bound one changes no store state.
C2_OneLiveBinding ==
  /\ [](\A e \in Elems :
          /\ \A ev \in Events : el[e].listeners[ev] = IF e = mediaEl THEN 1 ELSE 0
          /\ el[e].mc_listeners = (e = mediaEl))
  /\ [][(op'.name \in Notifications /\ op'.arg # mediaEl) => UNCHANGED storeVars]_vars

\* attach(A); attach(B) has just run
C2_Witness ==
  /\ op.name = "attachMedia"
  /\ op.arg = "B"
  /\ op.ret = "A"
  /\ mediaEl = "B"
  /\ \A ev \in Events : el["A"].listeners[ev] = 0 /\ el["B"].listeners[ev] = 1

\* the calls that move the page before they seek
SelectOps == {"selectPage", "selectNextPage", "selectPrevPage"}

\* the 1-based index of the last page whose timestamp is <= t, 1 when there is
\* none
LastPageAtOrBefore(pages, t) ==
  LET at == {i \in 1 .. Len(pages) : pages[i] <= t}
  IN IF at = {} THEN 1 ELSE CHOOSE i \in at : \A j \in at : j <= i

\* C3: in every reachable state with pageCount > 0, currentPage is in
\* [1, pageCount], whatever the setPage/nextPage/prevPage calls, time-driven
\* page updates, seeks and content loads or reloads.
C3_PageInRange ==
  pageCount > 0 => currentPage \in 1 .. pageCount

\* C4: for every page list sorted ascending by timestamp and every time t,
\* findPageForTimestamp(t) is the 1-based index of the last page whose
\* timestamp is <= t (the greatest such index when timestamps repeat), and 1
\* when the list is empty or t is smaller than every timestamp.
C4_FindPage ==
  (op.name = "findPageForTimestamp" /\ Sorted(pageModel)) =>
    op.ret = LastPageAtOrBefore(pageModel, op.arg)

\* the lookup hit a timestamp that two pages share and returned the later one
C4_Witness ==
  /\ op.name = "findPageForTimestamp"
  /\ Len(pageModel) = MaxFindPages
  /\ pageModel[MaxFindPages - 1] = op.arg
  /\ pageModel[MaxFindPages] = op.arg
  /\ pageModel[1] < op.arg
  /\ op.ret = MaxFindPages

\* C5: every change of currentTime with a non-empty page list leaves
\* currentPage equal to findPageForTimestamp(currentTime), the watcher writing
\* currentPage only when the computed page differs from the page the handler
\* left; with an empty page list the watcher leaves currentPage as it is.
C5_TimeDrivesPage ==
  [][ currentTime' # currentTime =>
        LET before == IF op'.name \in SelectOps THEN op'.arg ELSE currentPage
        IN IF Len(pageModel) > 0
           THEN /\ currentPage' = LastPageAtOrBefore(pageModel, currentTime')
                /\ pageWritten' = (currentPage' # before)
           ELSE /\ currentPage' = before
                /\ pageWritten' = pageWritten
    ]_vars

\* a time update of the element crossed a page boundary and the watcher wrote
\* the new page
C5_Witness ==
  /\ op.name = "onTimeUpdate"
  /\ op.arg = mediaEl
  /\ Len(pageModel) = MaxPages
  /\ pageWritten
  /\ currentPage = MaxPages
  /\ currentTime = pageModel[MaxPages]

\* C6: on a supporting platform, once every pending request and release has
\* completed, a wake lock is held only while playbackState is 'playing'.
C6_LockOnlyWhilePlaying ==
  (isSupported /\ requestsPending = 0 /\ releasing = {} /\ held # {}) =>
    playbackState = "playing"

\* C7: playbackState becomes 'playing' only by the element's play
\* notification, 'paused' only by its pause notification, 'ended' only by its
\* ended notification and 'error' only by a rejected play() or its error
\* notification; the play notification that answers a successful play leads to
\* 'playing' from every phase; no other store operation changes playbackState.
C7_PhaseMachine ==
  [][ /\ playbackState' # playbackState =>
           \/ playbackState' = "playing" /\ op'.name = "onPlay"
           \/ playbackState' = "paused" /\ op'.name = "onPause"
           \/ playbackState' = "ended" /\ op'.name = "onEnded"
           \/ playbackState' = "error" /\ op'.name \in {"onError", "playRejected"}
      /\ (op'.name = "onPlay" /\ op'.arg = mediaEl) => playbackState' = "playing"
    ]_vars

\* the play notification of the bound element arrived and the phase is
\* 'playing', the other store operations having run (a seek, a muted store)
C7_Witness ==
  /\ op.name = "onPlay"
  /\ playbackState = "playing"
  /\ mediaEl # NoEl
  /\ ~el[mediaEl].paused
  /\ currentTime = MaxTime
  /\ muted

\* C8: when the element rejects a play attempt, the play() or togglePlayPause()
\* call that made it completes without raising and playbackState becomes
\* 'error'; play() and pause() with no element attached change no state.
C8_PlayFailure ==
  /\ [](~uncaught)
  /\ [][ /\ op'.name = "playRejected" => playbackState' = "error"
         /\ (mediaEl = NoEl /\ op'.name \in {"play", "pause"}) => UNCHANGED stateVars
       ]_vars

\* a play attempt was rejected while the store was 'playing'
C8_Witness ==
  /\ op.name = "playRejected"
  /\ playbackState = "error"
  /\ ~uncaught
  /\ mediaEl # NoEl

\* the store operations that push volume and mute to the element
VolumePushes == {"setVolume", "toggleMute", "attachMedia"}

\* C9: after a store-initiated push to the element (setVolume, toggleMute,
\* attachMedia), the element's resulting volume-change notification leaves the
\* store's volume, muted and prevVolume unchanged.
C9_PushIsNotEchoed ==
  [][ (op.name \in VolumePushes /\ op'.name = "onVolumeChange") =>
        UNCHANGED volumeVars ]_vars

\* C10: in every reachable state playbackSpeed lies in [0.25, 2.0].
C10_SpeedInRange ==
  playbackSpeed \in MinSpeed .. MaxSpeed

\* two characters that are equal up to their case
SameLetter(c, d) == c = d \/ {c, d} = {"a", "A"}

\* text contains q, ignoring case
ContainsIgnoringCase(text, q) ==
  \E i \in 0 .. Len(text) - Len(q) :
     \A j \in 1 .. Len(q) : SameLetter(text[i + j], q[j])

\* the 0-based indices of the pages whose text contains q, ignoring case
PagesContaining(q) ==
  {i \in 0 .. Len(pageText) - 1 : ContainsIgnoringCase(pageText[i + 1], q)}

\* list holds exactly the members of set, in ascending order
AscendingListOf(list, set) ==
  /\ Len(list) = Cardinality(set)
  /\ \A i \in 1 .. Len(list) : list[i] \in set
  /\ \A i \in 1 .. Len(list) - 1 : list[i] < list[i + 1]

\* C11: search(q) for a non-empty q sets the match list to the 0-based
\* indices, ascending, of the pages whose text contains q ignoring case; with a
\* match the cursor is the first match and a seek to that page's timestamp is
\* requested (and currentTime is that timestamp), without one no seek is
\* requested.
C11_SearchFindsPages ==
  [][ (op'.name = "search" /\ op'.arg # <<>>) =>
        /\ AscendingListOf(searchMatches', PagesContaining(op'.arg))
        /\ IF PagesContaining(op'.arg) # {}
           THEN /\ currentMatchIndex' = 0
                /\ op'.ret = {pageModel[searchMatches'[1] + 1]}
                /\ currentTime' = pageModel[searchMatches'[1] + 1]
           ELSE /\ op'.ret = {}
                /\ currentTime' = currentTime
    ]_vars

\* a search for "A" found the second page, whose text is "a", and sought to it
C11_Witness ==
  /\ op.name = "search"
  /\ op.arg = <<"A">>
  /\ searchMatches = <<1>>
  /\ pageText[2] = <<"a">>
  /\ currentMatchIndex = 0
  /\ op.ret = {pageModel[2]}
  /\ currentTime = pageModel[2]

\* C12: after any sequence of search, findNext, findPrev, cancelSearch and
\* clear the match list is strictly ascending, matchesTotal is its length, the
\* cursor is -1 exactly when the list is empty and otherwise lies in
\* [0, length - 1], matchesCurrent is cursor + 1, and a non-empty query with no
\* match has cursor -1 and an empty match list.
C12_SearchStateConsistent ==
  /\ \A i \in 1 .. Len(searchMatches) - 1 : searchMatches[i] < searchMatches[i + 1]
  /\ matchesTotal = Len(searchMatches)
  /\ (currentMatchIndex = -1) <=> (searchMatches = <<>>)
  /\ searchMatches # <<>> => currentMatchIndex \in 0 .. Len(searchMatches) - 1
  /\ matchesCurrent = currentMatchIndex + 1
  /\ (lastQuery # <<>> /\ matchesTotal = 0) =>
       (currentMatchIndex = -1 /\ searchMatches = <<>>)

\* findPrev wrapped the cursor from the first to the last of several matches
C12_Witness ==
  /\ op.name = "findPrev"
  /\ Len(searchMatches) = MaxPages
  /\ currentMatchIndex = MaxPages - 1
  /\ matchesCurrent = MaxPages
  /\ lastQuery # <<>>

\* the timestamp of the page the match at cursor index points to, as a set:
\* empty when that page index lies outside the current page list
MatchTimestamps(index) ==
  {pageModel[i + 1] : i \in {searchMatches[index + 1]} \cap (0 .. Len(pageModel) - 1)}

\* NextMatch applied n times
RECURSIVE NextMatchTimes(_, _, _)
NextMatchTimes(index, total, n) ==
  IF n = 0 THEN index ELSE NextMatchTimes(NextMatch(index, total), total, n - 1)

\* the cursor moves of findNext and findPrev and their round trips
CursorMoves ==
  /\ [](matchesTotal > 0 /\ currentMatchIndex >= 0 =>
          /\ NextMatchTimes(currentMatchIndex, matchesTotal, matchesTotal)
               = currentMatchIndex
          /\ PrevMatch(NextMatch(currentMatchIndex, matchesTotal), matchesTotal)
               = currentMatchIndex)
  /\ [][ (op'.name \in {"findNext", "findPrev"}) =>
           IF lastQuery # <<>> /\ matchesTotal > 0
           THEN /\ op'.name = "findNext" =>
                     \/ currentMatchIndex' = currentMatchIndex + 1
                     \/ /\ currentMatchIndex = matchesTotal - 1
                        /\ currentMatchIndex' = 0
                /\ op'.name = "findPrev" =>
                     \/ currentMatchIndex' = currentMatchIndex - 1
                           /\ currentMatchIndex' >= 0
                     \/ /\ currentMatchIndex = 0
                        /\ currentMatchIndex' = matchesTotal - 1
           ELSE UNCHANGED stateVars /\ op'.ret = {}
       ]_vars

\* C13 as stated: with an active query and k > 0 matches findNext moves the
\* cursor to (cursor + 1) mod k and findPrev to (cursor - 1) mod k, each
\* requesting a seek to the selected match's timestamp; k findNext calls
\* return the cursor to its start and findPrev undoes findNext; without an
\* active query or without matches both change nothing and request no seek.
C13_AlwaysSeeks ==
  /\ CursorMoves
  /\ [][ (op'.name \in {"findNext", "findPrev"} /\ lastQuery # <<>>
            /\ matchesTotal > 0) =>
           /\ op'.ret # {}
           /\ op'.ret = MatchTimestamps(currentMatchIndex')
       ]_vars

\* C13, amended: as stated, the seek being requested when the selected match's
\* page index lies inside the current page list, and no seek otherwise.
C13_CyclicCursor ==
  /\ CursorMoves
  /\ [][ (op'.name \in {"findNext", "findPrev"} /\ lastQuery # <<>>
            /\ matchesTotal > 0) =>
           op'.ret = MatchTimestamps(currentMatchIndex')
       ]_vars

\* findNext wrapped the cursor from the last to the first of several matches
\* and sought to the first match's page
C13_Witness ==
  /\ op.name = "findNext"
  /\ Len(searchMatches) = MaxPages
  /\ Len(pageModel) = MaxPages
  /\ currentMatchIndex = 0
  /\ op.ret = {pageModel[searchMatches[1] + 1]}
  /\ currentTime = pageModel[searchMatches[1] + 1]

\* a query of blanks only (the empty query included)
Blank(q) == \A i \in 1 .. Len(q) : q[i] = " "

\* C14: search(q) with an empty or whitespace-only q changes no search state
\* (query, match list, cursor, counters) and requests no seek.
C14_BlankSearchIsNoOp ==
  [][ (op'.name = "search" /\ Blank(op'.arg)) =>
        /\ UNCHANGED searchVars
        /\ op'.ret = {}
    ]_vars

\* the priority a binding declares, 0 where it declares none
DeclaredPriority(b) ==
  IF b.priority = {1} THEN 1 ELSE IF b.priority = {-1} THEN -1 ELSE 0

\* binding i of the dispatcher may handle the event: its guard does not return
\* false and one of its descriptors matches
Eligible(i) ==
  /\ keyboard.bindings[i].when # "false"
  /\ \E d \in 1 .. Len(keyboard.bindings[i].keys) :
       matchKey(keyEvent, keyboard.bindings[i].keys[d])

\* binding i is tried before binding j: higher priority, or the same priority
\* and registered earlier
TriedBefore(i, j) ==
  \/ DeclaredPriority(keyboard.bindings[i]) > DeclaredPriority(keyboard.bindings[j])
  \/ /\ DeclaredPriority(keyboard.bindings[i]) = DeclaredPriority(keyboard.bindings[j])
     /\ i < j

\* the event passes the dispatcher's gates (enabled, scope, editable target)
Admitted ==
  /\ keyboard.enabled
  /\ ~(keyboard.onlyInside /\ ~keyEvent.target.inside)
  /\ ~(keyboard.ignoreEditable /\ keyEvent.target.isHTMLElement
       /\ (keyEvent.target.isContentEditable
           \/ keyEvent.target.tagName \in {"INPUT", "TEXTAREA", "SELECT"}))

\* C15: for a key-down event at most one handler runs; it is the handler of
\* the eligible binding (guard not false, a descriptor matches) that no other
\* eligible binding precedes in priority order (default 0, ties to the
\* binding registered first); one runs whenever an admitted event has an
\* eligible binding, so bindings with a false guard are skipped and lower
\* ones still tried; no guard of a binding after the chosen one is called.
C15_HighestPriorityWins ==
  op.name = "onKeyDown" =>
    /\ Len(op.ret.ran) <= 1
    /\ \A i \in 1 .. Len(keyboard.bindings) :
         op.ret.ran = <<i>> <=>
           /\ Admitted
           /\ Eligible(i)
           /\ \A j \in 1 .. Len(keyboard.bindings) :
                Eligible(j) => ~TriedBefore(j, i)
    /\ \A k \in 1 .. Len(op.ret.ran) : op.ret.ran[k] \in 1 .. Len(keyboard.bindings)
    /\ \A k \in 1 .. Len(op.ret.guards) :
         \A r \in 1 .. Len(op.ret.ran) :
           ~TriedBefore(op.ret.ran[r], op.ret.guards[k])

\* the third binding ran: it outranks the first, eligible one, and the second,
\* of the same priority and registered before it, has a guard returning false
C15_Witness ==
  /\ op.name = "onKeyDown"
  /\ Len(keyboard.bindings) = 3
  /\ Eligible(1) /\ Eligible(3)
  /\ keyboard.bindings[2].when = "false"
  /\ keyboard.bindings[2].keys = keyboard.bindings[3].keys
  /\ DeclaredPriority(keyboard.bindings[1]) < DeclaredPriority(keyboard.bindings[3])
  /\ DeclaredPriority(keyboard.bindings[2]) = DeclaredPriority(keyboard.bindings[3])
  /\ op.ret.ran = <<3>>
  /\ op.ret.guards = <<2>>

\* C16: a key-down event invokes no handler and is neither default-prevented
\* nor propagation-stopped when the dispatcher is disabled, when a scope root
\* is set and the event target lies outside it, or when editable-suppression
\* is on and the target is an input, textarea, select or content-editable
\* element.
C16_GatedEventsIgnored ==
  (op.name = "onKeyDown" /\ ~Admitted) =>
    /\ op.ret.ran = <<>>
    /\ ~op.ret.prevented
    /\ ~op.ret.stopped

\* the dispatcher has a single unguarded binding of a single descriptor, so
\* that its handler runs for an admitted event exactly when the descriptor
\* matches
SingleDescriptor ==
  /\ op.name = "onKeyDown"
  /\ Admitted
  /\ Len(keyboard.bindings) = 1
  /\ keyboard.bindings[1].when = "none"
  /\ Len(keyboard.bindings[1].keys) = 1

\* a modifier's required state, where the descriptor gives one, is the event's
Given(required, pressed) == required = {} \/ required = {pressed}

\* key, code and repeat policy of descriptor def agree with event e
KeyAndRepeatAgree(e, def) ==
  /\ Given(def.key, e.key)
  /\ Given(def.code, e.code)
  /\ def.repeat = "false" => ~e.repeat
  /\ def.repeat = "true" => e.repeat

\* the descriptor matches the event as stated: every given modifier state is
\* the event's, and primary asks for Ctrl without Meta off Apple platforms
\* and for Meta without Ctrl on them
MatchesAsStated(e, def) ==
  /\ KeyAndRepeatAgree(e, def)
  /\ Given(def.ctrl, e.ctrlKey) /\ Given(def.shift, e.shiftKey)
  /\ Given(def.alt, e.altKey) /\ Given(def.meta, e.metaKey)
  /\ def.primary =>
       IF platform = "MacIntel" THEN e.metaKey /\ ~e.ctrlKey
       ELSE e.ctrlKey /\ ~e.metaKey

\* the descriptor matches the event: Shift and Alt as given; Ctrl and Meta as
\* given without primary; with primary the platform's primary modifier is
\* pressed and the other one is pressed exactly when the descriptor sets it
\* to true
MatchesAsCoded(e, def) ==
  /\ KeyAndRepeatAgree(e, def)
  /\ Given(def.shift, e.shiftKey) /\ Given(def.alt, e.altKey)
  /\ ~def.primary => Given(def.ctrl, e.ctrlKey) /\ Given(def.meta, e.metaKey)
  /\ def.primary =>
       IF platform = "MacIntel"
         THEN e.metaKey /\ (e.ctrlKey <=> def.ctrl = {TRUE})
         ELSE e.ctrlKey /\ (e.metaKey <=> def.meta = {TRUE})

\* C17 as stated: a descriptor matches an event exactly when key and code (if
\* given) equal the event's, every modifier state the descriptor gives equals
\* the event's, a primary descriptor finds Ctrl pressed and Meta not pressed
\* off Apple platforms and Meta pressed and Ctrl not pressed on them, and the
\* repeat policy admits the event.
C17_MatchAsStated ==
  SingleDescriptor =>
    (op.ret.ran = <<1>> <=>
       MatchesAsStated(keyEvent, keyboard.bindings[1].keys[1]))

\* C17: a descriptor matches an event exactly when key and code (if given)
\* equal the event's, Shift and Alt are as the descriptor gives them, the
\* repeat policy admits the event, and: without primary, Ctrl and Meta are as
\* the descriptor gives them; with primary, the descriptor's ctrl and meta
\* fields are replaced: off Apple platforms Ctrl is pressed and Meta is
\* pressed exactly when meta is true, on Apple platforms Meta is pressed and
\* Ctrl is pressed exactly when ctrl is true.
C17_MatchAsCoded ==
  SingleDescriptor =>
    (op.ret.ran = <<1>> <=>
       MatchesAsCoded(keyEvent, keyboard.bindings[1].keys[1]))

\* a primary descriptor that also sets meta to true matched, off Apple
\* platforms, a non-repeat event with Ctrl and Meta pressed
C17_Witness ==
  /\ SingleDescriptor
  /\ platform = "Win32"
  /\ keyboard.bindings[1].keys[1].primary
  /\ keyboard.bindings[1].keys[1].meta = {TRUE}
  /\ keyboard.bindings[1].keys[1].key = {"k"}
  /\ keyboard.bindings[1].keys[1].repeat = "false"
  /\ keyEvent.ctrlKey /\ keyEvent.metaKey
  /\ op.ret.ran = <<1>>

\* C18: when a binding's handler runs for an event, preventDefault and
\* stopPropagation are called on the event unless the handler returned
\* exactly false; either way no further binding's handler runs; when no
\* handler runs neither is called.
C18_ConsumedUnlessFalse ==
  op.name = "onKeyDown" =>
    /\ Len(op.ret.ran) <= 1
    /\ op.ret.ran = <<>> => ~op.ret.prevented /\ ~op.ret.stopped
    /\ \A i \in 1 .. Len(keyboard.bindings) :
         op.ret.ran = <<i>> =>
           /\ op.ret.prevented <=> keyboard.bindings[i].returns # "false"
           /\ op.ret.stopped <=> keyboard.bindings[i].returns # "false"

\* of two bindings matching the event the first ran and returned 0, a falsy
\* value other than false: the event was consumed and the second did not run
C18_Witness ==
  /\ op.name = "onKeyDown"
  /\ Len(keyboard.bindings) >= 2
  /\ Eligible(1) /\ Eligible(2)
  /\ keyboard.bindings[1].returns = "0"
  /\ op.ret.ran = <<1>>
  /\ op.ret.prevented /\ op.ret.stopped

\* C19: the fullscreen-change listener is registered exactly while the
\* consumer count is at least 1; it is added only by the activation that takes
\* the count from 0 to 1 and removed only by the deactivation that takes it
\* from 1 to 0; the count is the number of active consumers and never negative.
C19_ListenerWhileConsumers ==
  /\ [](/\ fsListener <=> consumers >= 1
        /\ consumers >= 0
        /\ consumers = Cardinality(fsMounted))
  /\ [][ /\ (op'.name \in {"mountConsumer", "unmountConsumer"}
             /\ "addEventListener" \in op'.ret) =>
               (consumers = 0 /\ consumers' = 1 /\ ~fsListener)
         /\ (op'.name \in {"mountConsumer", "unmountConsumer"}
             /\ "removeEventListener" \in op'.ret) =>
               (consumers = 1 /\ consumers' = 0 /\ fsListener)
         /\ fsListener' # fsListener =>
              /\ op'.name \in {"mountConsumer", "unmountConsumer"}
              /\ op'.ret # {}
    ]_vars

\* one of two consumers was deactivated: the other remains, nothing was
\* removed and the listener is still registered
C19_Witness ==
  /\ op.name = "unmountConsumer"
  /\ op.ret = {}
  /\ consumers = 1
  /\ fsListener

\* the timeout the step started (its id is the next one handed out)
Started == [id |-> nextTimer, ms |-> 2500]

\* C20: entering fullscreen makes the controls visible and starts the 2500 ms
\* timeout; a user activity while in fullscreen makes them visible and starts
\* the timeout anew; the timeout just started is then the only one pending, so
\* at most one is pending and none that was superseded; the controls become
\* hidden only by the expiry of the timeout started last, in fullscreen.
C20_InactivityTimer ==
  /\ [](/\ Cardinality(timers) <= 1
        /\ \A t \in timers : t.id = hideControlsTimer /\ t.id = nextTimer - 1
        /\ timers # {} => fullscreen)
  /\ [][ /\ (~fullscreen /\ fullscreen') =>
              (controlsVisible' /\ timers' = {Started})
         /\ (op'.name = "onUserActivity" /\ fullscreen) =>
              (controlsVisible' /\ timers' = {Started})
         /\ (controlsVisible /\ ~controlsVisible') =>
              /\ op'.name = "hideTimerFires"
              /\ op'.arg = nextTimer - 1
              /\ fullscreen
    ]_vars

\* a user activity in fullscreen started a third or later timeout, which is
\* the only one pending, and the controls are visible
C20_Witness ==
  /\ op.name = "onUserActivity"
  /\ fullscreen
  /\ controlsVisible
  /\ nextTimer > 3
  /\ timers = {[id |-> nextTimer - 1, ms |-> 2500]}

\* C21: whenever the fullscreen flag is false the controls are visible and no
\* hide timeout is pending; leaving fullscreen cancels the timeout and makes
\* the controls visible; a user activity outside fullscreen changes nothing;
\* the controls are never hidden by an expiry outside fullscreen.
C21_VisibleOutsideFullscreen ==
  /\ [](~fullscreen => (controlsVisible /\ timers = {}))
  /\ [][ /\ (fullscreen /\ ~fullscreen') => (controlsVisible' /\ timers' = {})
         /\ (op'.name = "onUserActivity" /\ ~fullscreen) =>
              UNCHANGED <<fsVars, playerFrame>>
         /\ (op'.name = "hideTimerFires") => fullscreen
    ]_vars

\* a fullscreenchange event took the controller out of fullscreen after it had
\* started a timeout: none is pending and the controls are visible
C21_Witness ==
  /\ op.name = "fullscreenchange"
  /\ op.ret = TRUE
  /\ ~fullscreen
  /\ nextTimer > 1
  /\ hideControlsTimer = NoTimer
  /\ timers = {}
  /\ controlsVisible

\* what requestWakeLock does before and after its await, but for the active
\* flag after a platform failure
RequestCalls ==
  /\ (op'.name = "requestWakeLock" /\ (~isSupported \/ isActive)) =>
       /\ op'.ret = {FALSE}
       /\ UNCHANGED wakeVars
  /\ (op'.name = "requestWakeLock" /\ isSupported /\ ~isActive) =>
       /\ op'.ret = {}
       /\ requestsPending' = requestsPending + 1
       /\ UNCHANGED <<isActive, wakeLock, held, releasing>>
  /\ op'.name = "requestGranted" =>
       /\ op'.ret = TRUE
       /\ isActive'
       /\ wakeLock' \in held'
       /\ requestsPending' = requestsPending - 1
  /\ op'.name = "requestDenied" =>
       /\ op'.ret = FALSE
       /\ uncaught' = uncaught
       /\ requestsPending' = requestsPending - 1

ReleaseAsked == IF wakeLock # NoSentinel /\ isActive THEN {wakeLock} ELSE {}

\* C23: handleVisibilityChange(shouldBeActive) does nothing when wake lock is
\* unsupported, releases the lock when the page is hidden, requests one when
\* the page is visible, shouldBeActive is true and no lock is active, and
\* otherwise does nothing; so once the page, hidden and shown again while the
\* player is playing, has no request or release pending, the lock is active.
C23_VisibilityRestoresLock ==
  /\ []((isSupported /\ playbackState = "playing" /\ ~hidden
         /\ requestsPending = 0 /\ releasing = {}) => isActive)
  /\ [][ op'.name \in {"visibilitychange", "handleVisibilityChange"} =>
           /\ UNCHANGED <<isActive, wakeLock, held, sentinels, isSupported>>
           /\ ~isSupported => UNCHANGED <<requestsPending, releasing>>
           /\ (isSupported /\ op'.ret) =>
                /\ releasing' = releasing \cup ReleaseAsked
                /\ UNCHANGED requestsPending
           /\ (isSupported /\ ~op'.ret /\ op'.arg /\ ~isActive) =>
                /\ requestsPending' = requestsPending + 1
                /\ UNCHANGED releasing
           /\ (isSupported /\ ~op'.ret /\ ~(op'.arg /\ ~isActive)) =>
                UNCHANGED <<requestsPending, releasing>>
    ]_vars

\* C24: seekTo(ms) with a non-finite argument changes neither the store nor
\* any element; with a finite argument the store's currentTime becomes ms
\* itself, negative values included, and the attached element's position, if
\* there is one, becomes max(0, ms), no other element being touched.
C24_SeekTo ==
  [][ op'.name = "seekTo" =>
        IF op'.arg = NaN
          THEN UNCHANGED <<storeVars, el>>
          ELSE /\ currentTime' = op'.arg
               /\ \A e \in Elems :
                    el'[e] = IF e = mediaEl
                               THEN [el[e] EXCEPT !.currentTime =
                                       IF op'.arg < 0 THEN 0 ELSE op'.arg]
                               ELSE el[e]
               /\ UNCHANGED <<volume, muted, prevVolume, playbackSpeed,
                              playbackState, seeking, mediaEl, totalTime>>
    ]_vars

\* seekTo(-1) with an element attached: the store holds -1, the element 0
C24_Witness ==
  /\ op.name = "seekTo"
  /\ op.arg = -1
  /\ currentTime = -1
  /\ mediaEl # NoEl
  /\ el[mediaEl].currentTime = 0

\* C25: setPage(n), nextPage() and prevPage() (targets currentPage + 1 and
\* currentPage - 1) return false and change no store state when pageCount <= 0,
\* when the target is the current page or when it is outside [1, pageCount];
\* otherwise they return true and currentPage becomes the target, nothing else
\* changing.
C25_PageMoves ==
  [][ op'.name \in {"setPage", "nextPage", "prevPage"} =>
        LET accepted == /\ pageCount > 0
                        /\ op'.arg # currentPage
                        /\ op'.arg \in 1 .. pageCount
        IN  /\ op'.name = "nextPage" => op'.arg = currentPage + 1
            /\ op'.name = "prevPage" => op'.arg = currentPage - 1
            /\ op'.ret = accepted
            /\ currentPage' = IF accepted THEN op'.arg ELSE currentPage
            /\ UNCHANGED <<volume, muted, prevVolume, playbackSpeed, pageCount,
                           currentTime, totalTime, playbackState, seeking,
                           mediaEl, el>>
    ]_vars

\* nextPage() moved the page to the last one
C25_Witness ==
  /\ op.name = "nextPage"
  /\ op.ret = TRUE
  /\ pageCount = MaxPages
  /\ currentPage = pageCount

\* C26: for every input v, setVolume(v) sets volume to v rounded to an integer
\* and clamped to [0,100], sets muted to false, sets prevVolume to the new
\* volume only when that volume is nonzero (otherwise prevVolume is unchanged),
\* and a second setVolume(v) leaves the state unchanged.
C26_SetVolume ==
  [][ op'.name = "setVolume" =>
        /\ volume' \in 0 .. 100
        /\ IsFinite(op'.arg) => volume' = Max(0, Min(100, RoundPct(op'.arg)))
        /\ muted' = FALSE
        /\ prevVolume' = IF volume' # 0 THEN volume' ELSE prevVolume
        /\ (op.name = "setVolume" /\ op.arg = op'.arg) =>
              UNCHANGED <<storeVars, el>> ]_vars

\* the same for the finite inputs only
C26_SetVolumeFinite ==
  [][ (op'.name = "setVolume" /\ IsFinite(op'.arg)) =>
        /\ volume' = Max(0, Min(100, RoundPct(op'.arg)))
        /\ muted' = FALSE
        /\ prevVolume' = IF volume' # 0 THEN volume' ELSE prevVolume
        /\ (op.name = "setVolume" /\ op.arg = op'.arg) =>
              UNCHANGED <<storeVars, el>> ]_vars

\* the second toggleMute() of a pair that started unmuted with volume > 0 has
\* just run
PairDone ==
  /\ op.name = "toggleMute"
  /\ Len(toggles) = 2
  /\ ~toggles[1].muted
  /\ toggles[1].volume > 0

\* C27: from any state with muted = false and volume > 0, two toggleMute()
\* calls restore volume and muted, also when the element's volume-change
\* notifications are delivered in between.
C27_ToggleMuteTwice ==
  PairDone => (volume = toggles[1].volume /\ muted = toggles[1].muted)

\* a pair of calls was completed with an element attached and a notification
\* delivered to the store between the two calls
C27_Witness ==
  /\ PairDone
  /\ mediaEl # NoEl
  /\ toggles[1].notified
  /\ toggles[1].volume < 100

\* C28: togglePlayPause() requests play when the element is paused or has
\* ended and requests pause otherwise; it never issues both requests in one
\* call and does nothing when no element is attached.
C28_TogglePlayPause ==
  [][ op'.name = "togglePlayPause" =>
        IF mediaEl = NoEl
        THEN /\ op'.ret = "none"
             /\ UNCHANGED <<storeVars, el, playPending>>
        ELSE IF el[mediaEl].paused \/ el[mediaEl].ended
        THEN /\ op'.ret = "play"
             /\ playPending' = playPending + 1
             /\ el'[mediaEl].paused => el[mediaEl].paused
        ELSE /\ op'.ret = "pause"
             /\ playPending' = playPending
             /\ el'[mediaEl].paused ]_vars

\* the toggle requested play on an element that had ended
C28_Witness ==
  /\ op.name = "togglePlayPause"
  /\ op.ret = "play"
  /\ playbackState = "ended"

\* C29: selectPage(n), selectNextPage() and selectPrevPage() request a seek to
\* the target page's timestamp only when the page move succeeded and the target
\* page has a nonzero timestamp; when the move is rejected, the page entry is
\* missing or its timestamp is exactly 0, no seek is requested.
C29_SelectSeeks ==
  [][ op'.name \in SelectOps =>
        LET page == op'.arg
            known == page \in DOMAIN pageModel /\ pageModel[page] # 0
        IN /\ op'.ret.moved = CanSetPage(page)
           /\ op'.ret.seeks = IF op'.ret.moved /\ known
                              THEN {pageModel[page]} ELSE {}
           /\ op'.ret.seeks = {} => (currentTime' = currentTime /\ el' = el)
           /\ op'.ret.seeks # {} => currentTime' = pageModel[page] ]_vars

\* a page move succeeded onto a page whose timestamp is 0, and no seek was
\* requested
C29_Witness ==
  /\ op.name \in SelectOps
  /\ op.ret.moved
  /\ op.ret.seeks = {}
  /\ op.arg \in DOMAIN pageModel
  /\ pageModel[op.arg] = 0

\* the text of an entry fails to decode: it is not base64, or its bytes are
\* not UTF-8
DecodeFails(text) ==
  /\ text # <<>>
  /\ \/ AtobThrows(text)
     \/ \E i \in 1 .. Len(Utf8Decode(atob(text))) :
           Utf8Decode(atob(text))[i] = ReplacementChar

\* what the text of an entry that fails to decode may fall back to: the raw
\* decoded text, where there is one, or the empty string
Fallbacks(text) ==
  {<<>>} \cup (IF AtobThrows(text) THEN {} ELSE {atob(text)})

\* C30: loading a page dataset in which an entry's text fails to decode still
\* completes with one page per input entry (the failing entry's text falling
\* back to the raw decoded text or the empty string) and raises nothing to the
\* caller; entries with empty text get the empty string and every entry's time
\* and thumbnail are carried over unchanged.
C30_LoadSurvivesBadText ==
  [][ op'.name = "load" =>
        LET encodedModel == op'.arg
        IN /\ ~uncaught'
           /\ Len(pageModel') = Len(encodedModel)
           /\ Len(pageText') = Len(encodedModel)
           /\ Len(pageImage') = Len(encodedModel)
           /\ \A i \in 1 .. Len(encodedModel) :
                /\ pageModel'[i] = encodedModel[i].time
                /\ pageImage'[i] = encodedModel[i].thumb
                /\ encodedModel[i].text = <<>> => pageText'[i] = <<>>
                /\ DecodeFails(encodedModel[i].text) =>
                      pageText'[i] \in Fallbacks(encodedModel[i].text) ]_vars

\* the same for the datasets whose texts are all base64: the load completes,
\* every text is the UTF-8 decoding of its bytes with U+FFFD for the bytes that
\* are not UTF-8, and times and thumbnails are carried over
C30_LoadOfBase64 ==
  [][ (op'.name = "load"
         /\ \A i \in 1 .. Len(op'.arg) : ~Base64ToUtf8Throws(op'.arg[i].text)) =>
        LET encodedModel == op'.arg
        IN /\ uncaught' = uncaught
           /\ Len(pageModel') = Len(encodedModel)
           /\ Len(pageText') = Len(encodedModel)
           /\ Len(pageImage') = Len(encodedModel)
           /\ \A i \in 1 .. Len(encodedModel) :
                /\ pageModel'[i] = encodedModel[i].time
                /\ pageImage'[i] = encodedModel[i].thumb
                /\ pageText'[i] = IF encodedModel[i].text = <<>> THEN <<>>
                                  ELSE Utf8Decode(atob(encodedModel[i].text)) ]_vars

\* a load whose dataset has an entry that is not base64 rejects and leaves
\* the page list as it was
C30_LoadRejects ==
  [][ (op'.name = "load"
         /\ \E i \in 1 .. Len(op'.arg) : Base64ToUtf8Throws(op'.arg[i].text)) =>
        (uncaught' /\ UNCHANGED <<storeVars, contentVars>>) ]_vars

\* everything but the record of the last operation
Observable ==
  <<storeVars, el, playPending, uncaught, contentVars, pageWritten, wakeVars,
    uiVars>>

\* the search state as the store creates it
SearchEmpty ==
  /\ lastQuery = <<>>
  /\ matchesTotal = 0
  /\ matchesCurrent = 0
  /\ searchMatches = <<>>
  /\ currentMatchIndex = -1

\* C31: detachMedia() with no element attached, releaseWakeLock() with no
\* active lock and cancelSearch() with an already-empty search each change no
\* state, contact no external API (no listener removed, no release() called)
\* and raise no error.
C31_DefensiveNoOps ==
  [][ /\ (op'.name = "detachMedia" /\ mediaEl = NoEl) => UNCHANGED Observable
      /\ (op'.name = "releaseWakeLock" /\ ~isActive) => UNCHANGED Observable
      /\ (op'.name = "cancelSearch" /\ SearchEmpty) => UNCHANGED Observable
    ]_vars

\* releaseWakeLock() ran without an active lock after a lock had been acquired
\* and released, on a store without an element and without a search
C31_Witness ==
  /\ op.name = "releaseWakeLock"
  /\ ~isActive
  /\ sentinels > 0
  /\ mediaEl = NoEl
  /\ SearchEmpty

\* C32: at most one wake-lock sentinel is held at any time and the active flag
\* is true exactly when a sentinel is held, under every interleaving of
\* requestWakeLock, releaseWakeLock, handleVisibilityChange, the platform's
\* completions and its release notifications.
C32_OneLockFlagExact ==
  /\ Cardinality(held) <= 1
  /\ isActive <=> held # {}

\* at most one sentinel is held
C32_AtMostOneHeld == Cardinality(held) <= 1

\* the active flag is set only while a sentinel is held
C32_ActiveImpliesHeld == isActive => held # {}

\* a sentinel is held only while the active flag is set
C32_HeldImpliesActive == held # {} => isActive

\* the page follows the time: with a non-empty page list currentPage is the
\* page of currentTime
PageMatchesTime ==
  Len(pageModel) > 0 => currentPage = findPageForTimestamp(pageModel, currentTime)

\* C33: in every quiescent state (every watcher has run) with a non-empty page
\* list, currentPage equals findPageForTimestamp(currentTime); in particular
\* after a successful selectPage(n), selectNextPage() or selectPrevPage() the
\* store settles with currentPage equal to the selected page and currentTime
\* equal to that page's timestamp.
C33_SettledPageMatchesTime ==
  /\ []PageMatchesTime
  /\ [][ (op'.name \in SelectOps /\ op'.ret.moved) =>
           /\ currentPage' = op'.arg
           /\ op'.arg \in DOMAIN pageModel
           /\ currentTime' = pageModel[op'.arg] ]_vars

\* the same for the selections of a page whose timestamp is not 0
C33_SettledAfterSeek ==
  [][ (op'.name \in SelectOps /\ op'.ret.seeks # {}) =>
        /\ currentPage' = op'.arg
        /\ currentTime' = pageModel[op'.arg]
        /\ PageMatchesTime' ]_vars

\* every change of the time leaves the page of the new time
C33_SettledAfterTimeChange ==
  [][ currentTime' # currentTime => PageMatchesTime' ]_vars

\* the pause task of the element has run to its end
AbortSettled == ~aborting.event /\ aborting.rejects = 0

\* C34: once the pause task queued by a pause() during a pending play request
\* has delivered its 'pause' notification and its rejections to a store
\* that still listens, playbackState is 'paused'
C34_PauseDuringPlayEndsPaused ==
  (/\ AbortSettled
   /\ op.name \in {"onPause", "playRejected"}
   /\ op.arg = mediaEl
   /\ op.arg # NoEl) => playbackState = "paused"

\* C34: the rejection of the pending play request always stores 'error'
C34_AbortStoresError ==
  [][op'.name = "playRejected" => playbackState' = "error"]_vars

\* C34: when the rejection is delivered before the notification the store
\* does end in 'paused'
C34_PausedWhenNotifiedLast ==
  (AbortSettled /\ op.name = "onPause" /\ op.arg = mediaEl /\ op.arg # NoEl)
    => playbackState = "paused"

\* C35: in every reachable state volume is an integer in [0,100] and
\* prevVolume is an integer in [1,100]
C35_VolumeRanges == volume \in 0 .. 100 /\ prevVolume \in 1 .. 100

\* C35: no operation stores 0 or a non-number into prevVolume
C35_PrevVolumeRange == prevVolume \in 1 .. 100

\* C35: toggleMute() on a muted store restores prevVolume, so neither the
\* current volume nor the default is used
C35_UnmuteRestoresPrev ==
  [][(op'.name = "toggleMute" /\ muted) => (volume' = prevVolume /\ ~muted')]_vars

\* the cursor points into the match list and the page index stored there
\* points into the page list
ValidMatch(matches, index, pages) ==
  /\ index >= 0
  /\ index < Len(matches)
  /\ matches[index + 1] >= 0
  /\ matches[index + 1] < Len(pages)

\* C36: seekToMatch, findNext and findPrev request no seek and raise no error
\* when the cursor is outside the match list or the stored page index is
\* outside the current page list, and seek to the stored page otherwise
\* (findNext and findPrev return at once without a query or without matches)
C36_NoSeekOnInvalidIndex ==
  [][op'.name \in {"seekToMatch", "findNext", "findPrev"} =>
       /\ uncaught' = uncaught
       /\ IF /\ ValidMatch(searchMatches', currentMatchIndex', pageModel')
             /\ (op'.name = "seekToMatch" \/ (lastQuery # <<>> /\ matchesTotal # 0))
          THEN op'.ret = {pageModel'[searchMatches'[currentMatchIndex' + 1] + 1]}
          ELSE /\ op'.ret = {}
               /\ currentTime' = currentTime
               /\ el' = el]_vars

\* C36 witness: findNext moved the cursor to a match whose page index is past
\* the page list that replaced the searched one
C36_Witness ==
  /\ op.name = "findNext"
  /\ op.ret = {}
  /\ currentMatchIndex >= 0
  /\ currentMatchIndex < Len(searchMatches)
  /\ searchMatches[currentMatchIndex + 1] >= Len(pageModel)

\* C36: the cursor has left the match list after findNext
C36_CursorOutside ==
  /\ op.name = "findNext"
  /\ op.ret = {}
  /\ currentMatchIndex >= Len(searchMatches)

\* C37: the platform releasing a lock clears the active flag and drops the
\* stored sentinel, and a requestWakeLock() that follows asks the platform
\* for a lock instead of returning false
C37_PlatformReleaseAllowsRequest ==
  [][/\ op'.name = "platformRelease" =>
          (~isActive' /\ wakeLock' = NoSentinel)
     /\ (op.name = "platformRelease" /\ op'.name = "requestWakeLock") =>
          (op'.ret = {} /\ requestsPending' = requestsPending + 1)]_vars

\* C37: a lock granted to the composable is stored and sets the flag
C37_GrantStoresLock ==
  [][op'.name = "requestGranted" =>
       (isActive' /\ wakeLock' = op'.arg /\ op'.arg \in held' /\ op'.arg \notin held)]_vars

\* C37 witness: the first lock was released by the platform and a later
\* request has acquired the second one
C37_Witness ==
  /\ op.name = "requestGranted"
  /\ op.arg = 2
  /\ held = {2}
  /\ wakeLock = 2
  /\ isActive

\* what toggleMute() does to the fields of the store, as the claim states it
ToggleMuteStore ==
  IF muted
  THEN /\ ~muted'
       /\ volume' = IF prevVolume # 0 THEN prevVolume
                    ELSE IF volume # 0 THEN volume ELSE DefaultUnmuteVolume
  ELSE /\ muted'
       /\ prevVolume' = IF volume # 0 THEN volume ELSE prevVolume
       /\ volume' = volume

\* C38: toggleMute() unmutes to prevVolume, else the current volume, else 50;
\* muting remembers a nonzero volume and leaves the store's volume and the
\* attached element's numeric volume unchanged
C38_ToggleMute ==
  [][op'.name = "toggleMute" =>
       /\ ToggleMuteStore
       /\ (~muted /\ mediaEl # NoEl) => el'[mediaEl].volume = el[mediaEl].volume]_vars

\* C38: toggleMute() changes the store as stated and assigns the store's
\* volume and muted flag to the attached element, whatever volume the element
\* had
C38_ToggleMuteWritesElement ==
  [][op'.name = "toggleMute" =>
       /\ ToggleMuteStore
       /\ mediaEl # NoEl =>
            /\ el'[mediaEl].volume = volume' * VolScale
            /\ el'[mediaEl].muted = muted']_vars

\* C38 witness: toggleMute() has muted a store attached to an element, at a
\* volume that is not the element's initial one
C38_Witness ==
  /\ op.name = "toggleMute"
  /\ muted
  /\ mediaEl # NoEl
  /\ volume = 51
  /\ prevVolume = 51
  /\ el[mediaEl].volume = 51 * VolScale

\* the steps of the speed shortcuts, in hundredths
SpeedSteps == {25 * n : n \in 1 .. 8}

\* the steps of SpecShortcuts that are not the 'keydown' listener
EnvironmentOps == {"load", "attachMedia", "elementRate", "onRateChange",
                   "elementVolume", "onVolumeChange"}

\* the key-down being dispatched reaches the handlers: no auto-repeat, no
\* editable target
LiveKey(keys) ==
  /\ keyEvent.key \in keys
  /\ ~keyEvent.repeat
  /\ ~isEditableTarget(keyEvent.target)

\* C39: the speed-up shortcut sets the smallest step above the current speed,
\* or 2.0 without one; the speed-down shortcut the largest step below it, or
\* 0.25 without one; the reset shortcut 1.0; three speed-ups from 1.0 give
\* 1.75 and a speed-up at 2.0 leaves 2.0
C39_SpeedShortcuts ==
  [][(op'.name \notin EnvironmentOps) =>
       LET above == {s \in SpeedSteps : s > playbackSpeed}
           below == {s \in SpeedSteps : s < playbackSpeed}
       IN /\ LiveKey({">"}) =>
               /\ op'.name = "setPlaybackSpeed"
               /\ IF above = {} THEN playbackSpeed' = 200
                  ELSE playbackSpeed' \in above /\ \A s \in above : playbackSpeed' <= s
          /\ LiveKey({"<"}) =>
               /\ op'.name = "setPlaybackSpeed"
               /\ IF below = {} THEN playbackSpeed' = 25
                  ELSE playbackSpeed' \in below /\ \A s \in below : playbackSpeed' >= s
          /\ LiveKey({"0", "="}) =>
               (op'.name = "setPlaybackSpeed" /\ playbackSpeed' = 100)
          /\ SpeedUp(SpeedUp(SpeedUp(100))) = 175
          /\ (LiveKey({">"}) /\ playbackSpeed = 200) => playbackSpeed' = 200]_vars

\* C39 witness: a speed-up shortcut has raised the speed to 1.75
C39_Witness ==
  /\ LiveKey({">"})
  /\ op.name = "setPlaybackSpeed"
  /\ op.arg = 175
  /\ playbackSpeed = 175

\* C39: the speed-down shortcut has brought an outside speed of 3.0 to 2.0
C39_DownFromOutside ==
  /\ LiveKey({"<"})
  /\ op.name = "setPlaybackSpeed"
  /\ op.arg = 200
  /\ playbackSpeed = 200

\* the listener ran no handler for the key-down
NothingTriggered == op'.name = "onKeyDown" /\ op'.ret.ran = <<>>

\* C40: a non-repeat key-down outside editable elements triggers exactly the
\* catalogued action of its key (Space/K play-pause, Left/Right previous/next
\* page, Home/End page 1/pageCount, Up/Down setVolume of volume +/- 5 within
\* [0,100], M mute, F fullscreen, '?' the help callback if one was supplied);
\* an unbound key, an auto-repeat and a key-down in an editable element
\* trigger nothing
C40_CataloguedShortcuts ==
  [][(op'.name \notin EnvironmentOps) =>
       LET key == keyEvent.key
       IN IF keyEvent.repeat \/ isEditableTarget(keyEvent.target)
             \/ key \in {"K", "x"}
             \/ (key = "?" /\ keyboard.bindings # Shortcuts(TRUE))
          THEN NothingTriggered
          ELSE /\ key \in {" ", "k"} => op'.name = "togglePlayPause"
               /\ key = "ArrowLeft" => op'.name = "selectPrevPage"
               /\ key = "ArrowRight" => op'.name = "selectNextPage"
               /\ key = "Home" => (op'.name = "selectPage" /\ op'.arg = 1)
               /\ key = "End" => (op'.name = "selectPage" /\ op'.arg = pageCount)
               /\ key = "ArrowUp" =>
                    /\ op'.name = "setVolume"
                    /\ op'.arg = Min(100, volume + 5) * VolScale
                    /\ volume' = Min(100, volume + 5)
               /\ key = "ArrowDown" =>
                    /\ op'.name = "setVolume"
                    /\ op'.arg = Max(0, volume - 5) * VolScale
                    /\ volume' = Max(0, volume - 5)
               /\ key = "m" => op'.name = "toggleMute"
               /\ key = "f" => op'.name = "toggleFullscreen"
               /\ key = "?" => op'.name = "showShortcutsDialog"]_vars

\* C40 witness: the Up key has raised a volume of 51 to 56
C40_Witness ==
  /\ LiveKey({"ArrowUp"})
  /\ op.name = "setVolume"
  /\ op.arg = 56 * VolScale
  /\ volume = 56

\* C40: the End key has selected the last of the loaded pages
C40_EndSelectsLast ==
  /\ LiveKey({"End"})
  /\ op.name = "selectPage"
  /\ op.arg = MaxPages
  /\ currentPage = MaxPages

\* C40: '?' has opened the help dialog
C40_HelpShown == LiveKey({"?"}) /\ op.name = "showShortcutsDialog"

====
